---------------------------- MODULE Spec2Model ----------------------------
(***************************************************************************)
(* Model of the electronics toolkit: the resistor-network solver of the   *)
(* App component and the voltage-divider, Ohm's-law, LED and RC-filter     *)
(* calculators.  Every calculator is a React component whose state is a    *)
(* handful of useState cells; every handler is one atomic action.          *)
(*                                                                         *)
(* Numbers.  A JavaScript number is modelled as a record                   *)
(*     [k |-> "fin", n, d, e]   the rational (n/d) * 10^e, in the canonical*)
(*                              form: d > 0, gcd(n,d) = 1, neither n nor d *)
(*                              a multiple of 5, zero = 0/1e0 (so 5 is     *)
(*                              (1/2) * 10^1 and 0.125 is (1/8) * 10^0)    *)
(*     [k |-> "inf", n = +1/-1] +Infinity / -Infinity                      *)
(*     [k |-> "nan"]            NaN                                        *)
(* Arithmetic on finite values is exact (the rounding of IEEE doubles is   *)
(* not modelled, and -0 is identified with 0); division by zero, sqrt of   *)
(* a negative number and the Infinity/NaN arithmetic follow ECMAScript.    *)
(* The text of an input field is modelled by the number it parses to, or   *)
(* Blank for the empty string.                                             *)
(***************************************************************************)
EXTENDS Integers, Sequences, FiniteSets, TLC

--------------------------------------------------------------------------
(* Integer helpers *)

Abs(x) == IF x < 0 THEN -x ELSE x

Sign(x) == IF x < 0 THEN -1 ELSE IF x > 0 THEN 1 ELSE 0

Min2(a, b) == IF a < b THEN a ELSE b

RECURSIVE Gcd(_, _)
Gcd(a, b) == IF b = 0 THEN a ELSE Gcd(b, a % b)

RECURSIVE Pow10(_)
Pow10(k) == IF k <= 0 THEN 1 ELSE 10 * Pow10(k - 1)

--------------------------------------------------------------------------
(* The number values *)

NaN == [k |-> "nan", n |-> 0, d |-> 1, e |-> 0]

PosInf == [k |-> "inf", n |-> 1, d |-> 1, e |-> 0]

NegInf == [k |-> "inf", n |-> -1, d |-> 1, e |-> 0]

Zero == [k |-> "fin", n |-> 0, d |-> 1, e |-> 0]

Blank == [k |-> "blank", n |-> 0, d |-> 1, e |-> 0]

Inf(s) == IF s < 0 THEN NegInf ELSE PosInf

(* move the factors 5 of a non-zero numerator into the exponent *)
RECURSIVE StripN(_, _, _)
StripN(n, d, e) ==
  IF n % 5 = 0 THEN StripN(n \div 5, d * 2, e + 1)
  ELSE LET g == Gcd(Abs(n), d)
       IN  [k |-> "fin", n |-> n \div g, d |-> d \div g, e |-> e]

(* move the factors 5 of the denominator into the exponent *)
RECURSIVE StripD(_, _, _)
StripD(n, d, e) ==
  IF d % 5 = 0 THEN StripD(n * 2, d \div 5, e - 1)
  ELSE StripN(n, d, e)

(* the canonical form of (n/d) * 10^e, d # 0 *)
Norm(n, d, e) ==
  IF n = 0 THEN Zero
  ELSE LET s == IF d < 0 THEN -1 ELSE 1
           g == Gcd(Abs(n), Abs(d))
       IN  StripD((s * n) \div g, (s * d) \div g, e)

Q(n, d) == Norm(n, d, 0)

Num(n) == Norm(n, 1, 0)

Dec(n, e) == Norm(n, 1, e)

IsNaN(x) == x.k \in {"nan", "blank"}

IsFin(x) == x.k = "fin"

IsInf(x) == x.k = "inf"

SignOf(x) == IF x.k = "nan" THEN 0 ELSE Sign(x.n)

Neg(x) == IF x.k = "nan" THEN NaN
          ELSE [k |-> x.k, n |-> -x.n, d |-> x.d, e |-> x.e]

(* a + b *)
Add(a, b) ==
  IF a.k = "nan" \/ b.k = "nan" THEN NaN
  ELSE IF a.k = "inf"
       THEN IF b.k = "inf" /\ b.n # a.n THEN NaN ELSE a
  ELSE IF b.k = "inf" THEN b
  ELSE IF a.n = 0 THEN b
  ELSE IF b.n = 0 THEN a
  ELSE LET m == Min2(a.e, b.e)
           g == Gcd(a.d, b.d)
       IN  Norm(a.n * Pow10(a.e - m) * (b.d \div g)
                  + b.n * Pow10(b.e - m) * (a.d \div g),
                (a.d \div g) * b.d, m)

Sub(a, b) == Add(a, Neg(b))

(* l * 10^k < r for naturals l, r and k >= 0, without forming l * 10^k *)
RECURSIVE ScaledLt(_, _, _)
ScaledLt(l, k, r) ==
  IF k = 0 THEN l < r
  ELSE IF l >= r THEN FALSE
  ELSE ScaledLt(l * 10, k - 1, r)

(* l < r * 10^k for naturals l, r and k >= 0 *)
RECURSIVE LtScaled(_, _, _)
LtScaled(l, r, k) ==
  IF k = 0 THEN l < r
  ELSE IF r = 0 THEN FALSE
  ELSE IF l < r THEN TRUE
  ELSE LtScaled(l, r * 10, k - 1)

(* |a| < |b| for finite a, b *)
MagLt(a, b) ==
  LET l == Abs(a.n) * b.d
      r == Abs(b.n) * a.d
  IN  IF a.e >= b.e THEN ScaledLt(l, a.e - b.e, r)
      ELSE LtScaled(l, r, b.e - a.e)

(* a < b ; every comparison with NaN is false *)
Lt(a, b) ==
  IF IsNaN(a) \/ IsNaN(b) THEN FALSE
  ELSE IF a.k = "inf" THEN a.n < 0 /\ b # a
  ELSE IF b.k = "inf" THEN b.n > 0
  ELSE IF Sign(a.n) # Sign(b.n) THEN Sign(a.n) < Sign(b.n)
  ELSE IF a.n >= 0 THEN MagLt(a, b)
  ELSE MagLt(b, a)

Gt(a, b) == Lt(b, a)

(* a === b *)
Eq(a, b) == ~IsNaN(a) /\ ~IsNaN(b) /\ a = b

Le(a, b) == Lt(a, b) \/ Eq(a, b)

Ge(a, b) == Le(b, a)

MathAbs(x) == IF x.k = "nan" THEN NaN
              ELSE [k |-> x.k, n |-> Abs(x.n), d |-> x.d, e |-> x.e]

(* floor((2*n + d) / (2*d)): n/d rounded to the nearest integer, ties up *)
RoundDiv(n, d) == (2 * n + d) \div (2 * d)

(* (q + r/d) * 10^k rounded to the nearest integer (ties up), by long      *)
(* division, for 0 <= r < d                                                *)
RECURSIVE LongDiv(_, _, _, _)
LongDiv(q, r, d, k) ==
  IF k = 0 THEN (IF 2 * r >= d THEN q + 1 ELSE q)
  ELSE LongDiv(q * 10 + (r * 10) \div d, (r * 10) % d, d, k - 1)

(* |x| * 10^digits rounded to the nearest integer (ties away from zero),   *)
(* for a finite x; a denominator too large for the long division gives up  *)
(* its last decimal digit to the exponent                                  *)
RoundScaled(x, digits) ==
  LET big == x.d > 200000000
      sh  == x.e + digits - (IF big THEN 1 ELSE 0)
      n   == Abs(x.n)
      d   == IF big THEN x.d \div 10 ELSE x.d
  IN  IF sh >= 0 THEN LongDiv(n \div d, n % d, d, sh)
      ELSE IF LtScaled(2 * n, d, -sh) THEN 0
      ELSE RoundDiv(n, d * Pow10(-sh))

(* Number.prototype.toFixed(digits), as the number its text parses to:     *)
(* "Infinity" and "NaN" for the non-finite values                          *)
ToFixed(x, digits) ==
  IF x.k # "fin" THEN x
  ELSE IF x.e + digits >= 0 /\ Pow10(Min2(x.e + digits, 9)) % x.d = 0 THEN x
  ELSE Norm(Sign(x.n) * RoundScaled(x, digits), 1, -digits)

(* the k with 10^k <= x < 10^(k+1), for a finite x > 0, searched from k *)
RECURSIVE Log10Floor(_, _)
Log10Floor(x, k) ==
  IF Lt(x, Dec(1, k)) THEN Log10Floor(x, k - 1)
  ELSE IF ~Lt(x, Dec(1, k + 1)) THEN Log10Floor(x, k + 1)
  ELSE k

(* the product a * b of two integers fits the integers of the model *)
Fits(a, b) == a = 0 \/ b = 0 \/ Abs(a) <= 2147483647 \div Abs(b)

(* the largest integer whose square fits the integers of the model *)
MaxFactor == 46340

(* a magnitude n/d * 10^e with the low decimal digits of n and of d        *)
(* dropped until both are at most MaxFactor                                *)
RECURSIVE CutMag(_, _, _)
CutMag(n, d, e) ==
  IF n > MaxFactor
    THEN CutMag(n \div 10 + (IF n % 10 >= 5 THEN 1 ELSE 0), d, e + 1)
  ELSE IF d > MaxFactor THEN CutMag(n, d \div 10, e - 1)
  ELSE [n |-> n, d |-> d, e |-> e]

(* a finite non-zero x cut to the four or five leading decimal digits of   *)
(* its numerator and of its denominator                                    *)
Cut(x) ==
  LET r == CutMag(Abs(x.n), x.d, x.e)
  IN  [k |-> "fin", n |-> Sign(x.n) * r.n, d |-> r.d, e |-> r.e]

(* the exact product of two finite non-zero numbers *)
MulExact(a, b) ==
  LET g1 == Gcd(Abs(a.n), b.d)
      g2 == Gcd(Abs(b.n), a.d)
  IN  Norm((a.n \div g1) * (b.n \div g2), (a.d \div g2) * (b.d \div g1),
           a.e + b.e)

(* the exact product of a and b is representable *)
MulFits(a, b) ==
  LET g1 == Gcd(Abs(a.n), b.d)
      g2 == Gcd(Abs(b.n), a.d)
  IN  Fits(a.n \div g1, b.n \div g2) /\ Fits(a.d \div g2, b.d \div g1)

(* a * b: exact where the exact product is representable, otherwise the    *)
(* product of the factors cut to their leading digits                      *)
Mul(a, b) ==
  IF a.k = "nan" \/ b.k = "nan" THEN NaN
  ELSE IF a.k = "inf" \/ b.k = "inf"
       THEN IF a.n = 0 \/ b.n = 0 THEN NaN ELSE Inf(Sign(a.n) * Sign(b.n))
  ELSE IF a.n = 0 \/ b.n = 0 THEN Zero
  ELSE IF MulFits(a, b) THEN MulExact(a, b)
  ELSE MulExact(Cut(a), Cut(b))

(* a / b : x/0 is an Infinity, 0/0 and Infinity/Infinity are NaN *)
Div(a, b) ==
  IF a.k = "nan" \/ b.k = "nan" THEN NaN
  ELSE IF a.k = "inf"
       THEN IF b.k = "inf" THEN NaN
            ELSE Inf(Sign(a.n) * (IF b.n < 0 THEN -1 ELSE 1))
  ELSE IF b.k = "inf" THEN Zero
  ELSE IF b.n = 0 THEN (IF a.n = 0 THEN NaN ELSE Inf(Sign(a.n)))
  ELSE Mul(a, [k |-> "fin", n |-> Sign(b.n) * b.d, d |-> Abs(b.n), e |-> -b.e])

(* floor of the square root of a natural number below 2^31 *)
RECURSIVE ISqrtIn(_, _, _)
ISqrtIn(x, lo, hi) ==
  IF lo >= hi THEN lo
  ELSE LET mid == (lo + hi + 1) \div 2
       IN  IF mid * mid <= x THEN ISqrtIn(x, mid, hi)
           ELSE ISqrtIn(x, lo, mid - 1)

ISqrt(x) == ISqrtIn(x, 0, 46340)

(* the decimal scale at which the root of a non-square is cut *)
SqrtScale(m) ==
  IF m <= 2147 THEN 1000
  ELSE IF m <= 214748 THEN 100
  ELSE IF m <= 21474836 THEN 10
  ELSE 1

(* Math.sqrt with the root left out *)
MathSqrtNoRoot(x) == IF x.k = "nan" \/ x.n < 0 THEN NaN ELSE x

(* Math.sqrt: exact on the squares of rationals, otherwise cut below at    *)
(* the decimal precision the integers allow; NaN on negative numbers       *)
MathSqrt(x) ==
  IF x.k = "nan" THEN NaN
  ELSE IF x.n < 0 THEN NaN
  ELSE IF x.k = "inf" THEN PosInf
  ELSE IF x.n = 0 THEN Zero
  ELSE LET odd == x.e % 2 # 0
           n   == IF odd THEN x.n * 10 ELSE x.n
           e   == IF odd THEN x.e - 1 ELSE x.e
           m   == n * x.d
           r   == ISqrt(m)
           s   == SqrtScale(m)
       IN  IF r * r = m THEN Norm(r, x.d, e \div 2)
           ELSE Norm(ISqrt(m * s * s), x.d * s, e \div 2)

(* Math.exp and Math.log are computed in fixed point with four decimals:  *)
(* a value v stands for v / FxScale                                        *)
FxScale == 10000

(* e^(-F/FxScale) for 0 <= F < FxScale: the alternating series in Horner   *)
(* form, 1 - f(1 - f/2 (1 - f/3 (...))), from its k-th factor on           *)
RECURSIVE ExpHorner(_, _)
ExpHorner(F, k) ==
  IF k > 8 THEN FxScale
  ELSE FxScale - RoundDiv(F * ExpHorner(F, k + 1), k * FxScale)

(* v * e^(-n): n multiplications by e^(-1) = 0.3679 *)
RECURSIVE TimesInvE(_, _)
TimesInvE(v, n) ==
  IF n = 0 THEN v ELSE TimesInvE(RoundDiv(v * 3679, FxScale), n - 1)

(* e^(-a) for a finite a > 0, to four decimals (0 from a = 10 on) *)
ExpNeg(a) ==
  IF ~Lt(a, Num(10)) THEN Zero
  ELSE LET A == RoundScaled(a, 4)
       IN  Dec(TimesInvE(ExpHorner(A % FxScale, 1), A \div FxScale), -4)

(* Math.exp *)
MathExp(x) ==
  IF x.k = "nan" THEN NaN
  ELSE IF x.k = "inf" THEN (IF x.n > 0 THEN PosInf ELSE Zero)
  ELSE IF x.n = 0 THEN Num(1)
  ELSE IF x.n < 0 THEN ExpNeg(Neg(x))
  ELSE Div(Num(1), ExpNeg(x))

(* the j with 2^j * FxScale <= M < 2^(j+1) * FxScale, for M below 16 * FxScale *)
Log2Floor(M) ==
  IF M >= 8 * FxScale THEN 3
  ELSE IF M >= 4 * FxScale THEN 2
  ELSE IF M >= 2 * FxScale THEN 1
  ELSE 0

(* ln(M / P) for P <= M < 2 * P: 2 (y + y^3/3 + y^5/5 + y^7/7) with        *)
(* y = (M - P) / (M + P)                                                   *)
LnNearOne(M, P) ==
  LET Y  == RoundDiv((M - P) * FxScale, M + P)
      Y2 == RoundDiv(Y * Y, FxScale)
      a5 == 2000 + RoundDiv(Y2 * 1429, FxScale)
      a3 == 3333 + RoundDiv(Y2 * a5, FxScale)
      a1 == FxScale + RoundDiv(Y2 * a3, FxScale)
  IN  2 * RoundDiv(Y * a1, FxScale)

(* ln of a finite x > 0, to four decimals: x = m * 10^k with 1 <= m < 10,  *)
(* m = q * 2^j with 1 <= q < 2, ln x = ln q + j ln 2 + k ln 10             *)
LnPos(x) ==
  LET k == Log10Floor(x, x.e)
      M == RoundScaled([x EXCEPT !.e = x.e - k], 4)
      j == Log2Floor(M)
      P == FxScale * (IF j = 3 THEN 8 ELSE IF j = 2 THEN 4 ELSE IF j = 1 THEN 2 ELSE 1)
  IN  Dec(LnNearOne(M, P) + j * 6931 + k * 23026, -4)

(* Math.log *)
MathLog(x) ==
  IF x.k = "nan" THEN NaN
  ELSE IF x.n < 0 THEN NaN
  ELSE IF x.k = "inf" THEN PosInf
  ELSE IF x.n = 0 THEN NegInf
  ELSE LnPos(x)

(* the largest integer not above a finite x *)
FloorInt(x) ==
  IF x.e >= 0 THEN (x.n * Pow10(x.e)) \div x.d
  ELSE x.n \div (x.d * Pow10(-x.e))

MathFloor(x) == IF x.k # "fin" THEN x ELSE Num(FloorInt(x))

(* Math.round: the nearest integer, ties towards +Infinity *)
MathRound(x) == MathFloor(Add(x, Dec(5, -1)))

(* a % b: the remainder takes the sign of the dividend *)
JsRem(a, b) ==
  IF a.k # "fin" \/ b.k = "nan" \/ b.n = 0 THEN NaN
  ELSE IF b.k = "inf" THEN a
  ELSE LET q == Div(a, b)
           t == IF q.n < 0 THEN Neg(MathFloor(Neg(q))) ELSE MathFloor(q)
       IN  Sub(a, Mul(b, t))

(* the value `undefined` of a missing property *)
Undefined == [k |-> "undefined", n |-> 0, d |-> 1, e |-> 0]

(* `x || dflt`: undefined, NaN and 0 are falsy *)
OrDefault(x, dflt) ==
  IF x.k = "undefined" \/ IsNaN(x) \/ x = Zero THEN dflt ELSE x

(* parseFloat of a field's text: NaN for the empty string *)
parseFloat(s) == IF s.k = "blank" THEN NaN ELSE s

(* `parseFloat(text) || 0`: NaN and 0 are falsy *)
OrZero(x) == IF IsNaN(x) \/ x = Zero THEN Zero ELSE x

--------------------------------------------------------------------------
(* State *)

VARIABLES
  mode,         \* App: the active CalculationMode
  sourceValue,  \* App: the source value (a number)
  inputType,    \* App: the source kind, "voltage" or "current"
  resistors,    \* App: the list of Resistor records [id, value, multiplier]
  dvValues,     \* VoltageDivider: the texts of the fields vin, ra, rb, vout
  dvCalculatedField, \* VoltageDivider: the derived field, or "null"
  dvError,      \* VoltageDivider: the error message, or "null"
  dvLast,       \* VoltageDivider: history of the last handler (see Last)
  ohValues,     \* OhmsLawCalculator: the texts of the fields v, i, r, p
  ohCalculatedKeys, \* OhmsLawCalculator: the set of derived fields
  ohError,      \* OhmsLawCalculator: the error message, or "null"
  ohLast,       \* OhmsLawCalculator: history of the last handler
  ledValues,    \* LEDCalculator: the texts of the three fields
  ledResult,    \* LEDCalculator: the stored LEDResult, or NoResult
  ledLast,      \* LEDCalculator: history of the last handler
  rcTab,        \* RCCalculator: the active tab, "filter" or "delay"
  rcValues,     \* RCCalculator: the filter fields r, rUnit, c, cUnit, f, fUnit
  rcResult,     \* RCCalculator: the stored filter result, or NoResult
  rcDelayValues, \* RCCalculator: the delay fields vin, vtarget, r, c, t and units
  rcDelayResult, \* RCCalculator: the stored delay result, or NoResult
  rcError,      \* RCCalculator: the error message of both tabs, or "null"
  rcLast,       \* RCCalculator: history of the last handler
  batCapacity,  \* BatteryLifeCalculator: the text of the capacity field
  batCurrent,   \* BatteryLifeCalculator: the text of the current field
  batEfficiency, \* BatteryLifeCalculator: the efficiency (a number)
  batResult,    \* BatteryLifeCalculator: the stored result, or NoResult
  batLast,      \* BatteryLifeCalculator: history of the last handler
  ccBands,      \* ColorCodeCalculator: the number of bands, 4 or 5
  ccColors,     \* ColorCodeCalculator: the list of colour keys
  ccResult,     \* ColorCodeCalculator: `result`, what calculate() returned
  fmtNum,       \* formatUnit: the argument num
  fmtOut        \* formatUnit: the returned mantissa and prefix, or NoResult

netVars == <<mode, sourceValue, inputType, resistors>>

dvVars == <<dvValues, dvCalculatedField, dvError, dvLast>>

ohVars == <<ohValues, ohCalculatedKeys, ohError, ohLast>>

ledVars == <<ledValues, ledResult, ledLast>>

rcVars == <<rcTab, rcValues, rcResult, rcDelayValues, rcDelayResult, rcError,
           rcLast>>

batVars == <<batCapacity, batCurrent, batEfficiency, batResult, batLast>>

ccVars == <<ccBands, ccColors, ccResult>>

fmtVars == <<fmtNum, fmtOut>>

(* the battery-life and colour-code components and the unit formatter *)
toolVars == <<batVars, ccVars, fmtVars>>

(* the state of the calculator components *)
calcVars == <<dvVars, ohVars, ledVars, rcVars, toolVars>>

vars == <<netVars, calcVars>>

(* successful solves a calculator performs between two resets of its form *)
MaxSolves == 2

(* The history variable of a calculator: the handler that ran last; when   *)
(* that handler was calculate, the state it found (field texts, derived    *)
(* marks or stored result, error message) and what it signalled; and the   *)
(* number of successful solves since the form was last cleared or mounted. *)
Last(op, values, marks, error, signal, solves) ==
  [op |-> op, values |-> values, marks |-> marks, error |-> error,
   signal |-> signal, solves |-> solves]

--------------------------------------------------------------------------
(* Bounds and input sets of the resistor network *)

MaxResistors == 3

Series == "series"

Parallel == "parallel"

CalculationMode ==
  {Series, Parallel, "voltage-divider", "led", "ohms-law", "rc-time",
   "battery-life", "color-code"}

(* the mode buttons pressed in the series / parallel view *)
ModeChoices == {Series, Parallel}

UnitMultiplier == {Num(1), Num(1000), Num(1000000)}

(* the multipliers the model selects: with Ohm and MOhm in one network the *)
(* exact power values no longer fit 32-bit integers                        *)
MultiplierChoices == {u \in UnitMultiplier : Lt(u, Num(1000000))}

(* texts typed into a resistor's value field and into the source field *)
ResistorTexts == {Blank, Num(100)}

SourceTexts == {Blank, Num(10)}

--------------------------------------------------------------------------
(* App: the resistor-network solver *)

Range(f) == {f[i] : i \in DOMAIN f}

(* a fresh identifier: the ids generateId draws are taken to be distinct   *)
(* from the ids in the list                                                *)
generateId(list) ==
  CHOOSE i \in 1..(Len(list) + 1) :
    /\ i \notin {list[j].id : j \in DOMAIN list}
    /\ \A h \in 1..(i - 1) : h \in {list[j].id : j \in DOMAIN list}

NewResistor(list) ==
  [id |-> generateId(list), value |-> Num(100), multiplier |-> Num(1)]

FilterOut(list, id) == SelectSeq(list, LAMBDA r : r.id # id)

(* the series / parallel view is rendered *)
NetworkView == mode \in {Series, Parallel}

addResistor ==
  /\ NetworkView
  /\ Len(resistors) < MaxResistors
  /\ resistors' = Append(resistors, NewResistor(resistors))
  /\ UNCHANGED <<mode, sourceValue, inputType, calcVars>>

(* removeResistor without the `resistors.length > 1` test *)
removeResistorUnguarded(id) ==
  /\ NetworkView
  /\ resistors' = FilterOut(resistors, id)
  /\ UNCHANGED <<mode, sourceValue, inputType, calcVars>>

removeResistor(id) ==
  /\ NetworkView
  /\ resistors' = IF Len(resistors) > 1 THEN FilterOut(resistors, id)
                  ELSE resistors
  /\ UNCHANGED <<mode, sourceValue, inputType, calcVars>>

updateResistor(id, field, value) ==
  /\ NetworkView
  /\ resistors' = [j \in DOMAIN resistors |->
                     IF resistors[j].id = id
                     THEN [resistors[j] EXCEPT ![field] = value]
                     ELSE resistors[j]]
  /\ UNCHANGED <<mode, sourceValue, inputType, calcVars>>

setSourceValue(text) ==
  /\ NetworkView
  /\ sourceValue' = OrZero(parseFloat(text))
  /\ UNCHANGED <<mode, inputType, resistors, calcVars>>

setInputType(t) ==
  /\ NetworkView
  /\ inputType' = t
  /\ UNCHANGED <<mode, sourceValue, resistors, calcVars>>

(* reduce((acc, x) => acc + x, 0) over a list of numbers *)
RECURSIVE SumSeq(_)
SumSeq(list) ==
  IF list = <<>> THEN Zero
  ELSE Add(SumSeq(SubSeq(list, 1, Len(list) - 1)), list[Len(list)])

actualResistance(r) == Mul(r.value, r.multiplier)

(* Conductance without the `actualResistance > 0` test *)
ConductanceUnguarded(r) == Div(Num(1), actualResistance(r))

Conductance(r) ==
  IF Gt(actualResistance(r), Zero) THEN Div(Num(1), actualResistance(r))
  ELSE Zero

(* the series voltage drop computed from the typed value alone *)
SeriesVoltageDropNoMultiplier(totalCurrent, r) == Mul(totalCurrent, r.value)

SeriesVoltageDrop(totalCurrent, r) == Mul(totalCurrent, actualResistance(r))

(* the parallel branch current computed from the typed value alone *)
ParallelCurrentFlowNoMultiplier(totalVoltage, r) ==
  IF Gt(actualResistance(r), Zero) THEN Div(totalVoltage, r.value) ELSE Zero

ParallelCurrentFlow(totalVoltage, r) ==
  IF Gt(actualResistance(r), Zero) THEN Div(totalVoltage, actualResistance(r))
  ELSE Zero

SeriesResults(list, src, kind) ==
  LET totalResistance == SumSeq([j \in DOMAIN list |-> actualResistance(list[j])])
      totalVoltage ==
        IF kind = "voltage" THEN src
        ELSE Mul(src, totalResistance)
      totalCurrent ==
        IF kind = "voltage"
        THEN (IF Gt(totalResistance, Zero) THEN Div(src, totalResistance)
              ELSE Zero)
        ELSE src
      calc(r) ==
        LET voltageDrop == SeriesVoltageDrop(totalCurrent, r)
        IN  [id |-> r.id, value |-> r.value, multiplier |-> r.multiplier,
             actualResistance |-> actualResistance(r),
             voltageDrop |-> voltageDrop,
             currentFlow |-> totalCurrent,
             \* totalCurrent * totalCurrent * R, associated so that the
             \* exact intermediate value stays small
             power |-> Mul(totalCurrent, Mul(totalCurrent, actualResistance(r))),
             sharePercentage |->
               IF Gt(totalVoltage, Zero)
               THEN Mul(Div(voltageDrop, totalVoltage), Num(100))
               ELSE Zero]
  IN  [calculatedResistors |-> [j \in DOMAIN list |-> calc(list[j])],
       totalResistance |-> totalResistance,
       totalCurrent |-> totalCurrent,
       totalPower |-> Mul(totalVoltage, totalCurrent),
       totalVoltage |-> totalVoltage]

ParallelResults(list, src, kind) ==
  LET conductance == SumSeq([j \in DOMAIN list |-> Conductance(list[j])])
      totalResistance ==
        IF Gt(conductance, Zero) THEN Div(Num(1), conductance) ELSE Zero
      totalVoltage ==
        IF kind = "voltage" THEN src
        ELSE Mul(src, totalResistance)
      totalCurrent ==
        IF kind = "voltage" THEN Mul(src, conductance)
        ELSE src
      calc(r) ==
        LET currentFlow == ParallelCurrentFlow(totalVoltage, r)
        IN  [id |-> r.id, value |-> r.value, multiplier |-> r.multiplier,
             actualResistance |-> actualResistance(r),
             voltageDrop |-> totalVoltage,
             currentFlow |-> currentFlow,
             power |-> Mul(totalVoltage, currentFlow),
             sharePercentage |->
               IF Gt(totalCurrent, Zero)
               THEN Mul(Div(currentFlow, totalCurrent), Num(100))
               ELSE Zero]
  IN  [calculatedResistors |-> [j \in DOMAIN list |-> calc(list[j])],
       totalResistance |-> totalResistance,
       totalCurrent |-> totalCurrent,
       totalPower |-> Mul(totalVoltage, totalCurrent),
       totalVoltage |-> totalVoltage]

(* the memoised `results` of the current state *)
ResultsOf(list, m, src, kind) ==
  IF m # Series /\ m # Parallel
  THEN [calculatedResistors |-> <<>>, totalResistance |-> Zero,
        totalCurrent |-> Zero, totalPower |-> Zero, totalVoltage |-> Zero]
  ELSE IF m = Series THEN SeriesResults(list, src, kind)
  ELSE ParallelResults(list, src, kind)

results == ResultsOf(resistors, mode, sourceValue, inputType)

--------------------------------------------------------------------------
(* VoltageDivider *)

DividerFields == <<"vin", "ra", "rb", "vout">>

(* texts typed into the fields *)
DvTexts(field) ==
  CASE field = "vin"  -> {Blank, Zero, Num(9), Num(6)}
    [] field = "ra"   -> {Blank, Zero, Num(1000)}
    [] field = "rb"   -> {Blank, Zero, Num(2000)}
    [] field = "vout" -> {Blank, Zero, Num(6), Num(9), Dec(-1, -7)}

DvBlank == [vin |-> Blank, ra |-> Blank, rb |-> Blank, vout |-> Blank]

(* validInputs.length *)
DvValidCount(values) ==
  Cardinality({i \in 1..4 : ~IsNaN(parseFloat(values[DividerFields[i]]))})

(* setError(msg); return -- the messages are given in English *)
DvError(msg) == [error |-> msg, field |-> "null", text |-> Blank]

DvSolved(field, res) == [error |-> "null", field |-> field, text |-> ToFixed(res, 3)]

(* the branch that solves Ra with the NegativeResult test left out *)
DvSolveRaNoSignTest(vin, rb, vout) ==
  IF Eq(vout, Zero) THEN DvError("Vout must not be 0")
  ELSE IF Lt(MathAbs(Sub(vin, vout)), Dec(1, -6)) THEN DvError("Vin must not equal Vout")
  ELSE DvSolved("ra", Mul(rb, Sub(Div(vin, vout), Num(1))))

DvSolveVout(vin, ra, rb) ==
  IF Eq(Add(ra, rb), Zero) THEN DvError("Ra + Rb must not be 0")
  ELSE DvSolved("vout", Mul(vin, Div(rb, Add(ra, rb))))

DvSolveRa(vin, rb, vout) ==
  IF Eq(vout, Zero) THEN DvError("Vout must not be 0")
  ELSE IF Lt(MathAbs(Sub(vin, vout)), Dec(1, -6)) THEN DvError("Vin must not equal Vout")
  ELSE LET res == Mul(rb, Sub(Div(vin, vout), Num(1)))
       IN  IF Lt(res, Zero) THEN DvError("Ra is negative") ELSE DvSolved("ra", res)

DvSolveRb(vin, ra, vout) ==
  IF Eq(vin, vout) THEN DvError("Vin must not equal Vout (zero denominator)")
  ELSE LET res == Div(Mul(vout, ra), Sub(vin, vout))
       IN  IF Lt(res, Zero) THEN DvError("Rb is negative") ELSE DvSolved("rb", res)

(* the branch that solves Vin with Ra left out of the sum *)
DvSolveVinNoRa(ra, rb, vout) ==
  IF Eq(rb, Zero) THEN DvError("Rb must not be 0")
  ELSE DvSolved("vin", Div(Mul(vout, rb), rb))

DvSolveVin(ra, rb, vout) ==
  IF Eq(rb, Zero) THEN DvError("Rb must not be 0")
  ELSE DvSolved("vin", Div(Mul(vout, Add(ra, rb)), rb))

(* the test `validInputs.length !== 3` weakened to `< 3` *)
DvWrongCountLess(values) == DvValidCount(values) < 3

DvWrongCount(values) == DvValidCount(values) # 3

(* what calculate does with the field texts: an error message, or the     *)
(* derived field and its new text; "none" when no branch is taken         *)
DvOutcome(values) ==
  LET vin  == parseFloat(values.vin)
      ra   == parseFloat(values.ra)
      rb   == parseFloat(values.rb)
      vout == parseFloat(values.vout)
  IN  IF DvWrongCount(values) THEN DvError("enter exactly 3 values")
      ELSE IF IsNaN(vout) THEN DvSolveVout(vin, ra, rb)
      ELSE IF IsNaN(ra) THEN DvSolveRa(vin, rb, vout)
      ELSE IF IsNaN(rb) THEN DvSolveRb(vin, ra, vout)
      ELSE IF IsNaN(vin) THEN DvSolveVin(ra, rb, vout)
      ELSE [error |-> "none", field |-> "null", text |-> Blank]

DvHandleChange(field, value) ==
  /\ mode = "voltage-divider"
  /\ field # dvCalculatedField        \* the derived field is read-only
  /\ dvCalculatedField' = "null"
  /\ dvError' = "null"
  /\ dvValues' = [dvValues EXCEPT ![field] = value]
  /\ dvLast' = Last("handleChange", DvBlank, "null", "null", "null", dvLast.solves)
  /\ UNCHANGED <<netVars, toolVars, ohVars, ledVars, rcVars>>

(* handleClear with the derived-field mark left in place *)
DvHandleClearKeepMark ==
  /\ mode = "voltage-divider"
  /\ dvValues' = DvBlank
  /\ dvError' = "null"
  /\ dvLast' = Last("handleClear", DvBlank, "null", "null", "null", 0)
  /\ UNCHANGED <<dvCalculatedField, netVars, toolVars, ohVars, ledVars, rcVars>>

DvHandleClear ==
  /\ mode = "voltage-divider"
  /\ dvValues' = DvBlank
  /\ dvCalculatedField' = "null"
  /\ dvError' = "null"
  /\ dvLast' = Last("handleClear", DvBlank, "null", "null", "null", 0)
  /\ UNCHANGED <<netVars, toolVars, ohVars, ledVars, rcVars>>

DvCalculate ==
  LET out == DvOutcome(dvValues)
      ok  == out.error = "null"
  IN  /\ mode = "voltage-divider"
      /\ dvLast.solves < MaxSolves
      /\ dvError' = IF out.error \in {"null", "none"} THEN dvError ELSE out.error
      /\ dvValues' = IF ok THEN [dvValues EXCEPT ![out.field] = out.text]
                     ELSE dvValues
      /\ dvCalculatedField' = IF ok THEN out.field ELSE dvCalculatedField
      /\ dvLast' = Last("calculate", dvValues, dvCalculatedField, dvError,
                        "null", dvLast.solves + (IF ok THEN 1 ELSE 0))
      /\ UNCHANGED <<netVars, toolVars, ohVars, ledVars, rcVars>>

(* the state of a freshly mounted VoltageDivider *)
DvMounted ==
  [values |-> DvBlank, calculatedField |-> "null", error |-> "null",
   last |-> Last("init", DvBlank, "null", "null", "null", 0)]

DvNext ==
  \/ \E i \in 1..4 : \E t \in DvTexts(DividerFields[i]) :
       DvHandleChange(DividerFields[i], t)
  \/ DvHandleClear
  \/ DvCalculate

--------------------------------------------------------------------------
(* OhmsLawCalculator *)

OhmsFields == <<"v", "i", "r", "p">>

(* texts typed into the fields *)
OhTexts(key) ==
  CASE key = "v" -> {Blank, Zero, Num(10), Num(-10)}
    [] key = "i" -> {Blank, Zero, Num(2), Num(-2), Num(500000)}
    [] key = "r" -> {Blank, Zero, Num(5), Num(-5)}
    [] key = "p" -> {Blank, Zero, Num(20), Num(-20)}

OhBlank == [v |-> Blank, i |-> Blank, r |-> Blank, p |-> Blank]

(* the keys of `inputs`: the fields whose text parses to a number *)
OhInputs(values) ==
  {OhmsFields[j] : j \in {j \in 1..4 : ~IsNaN(parseFloat(values[OhmsFields[j]]))}}

(* parseFloat(x.toFixed(4)).toString(), the text written back to a field *)
OhText(x) == ToFixed(x, 4)

OhSolved(v, i, r, p, calculated) ==
  [error |-> "null",
   raw |-> [v |-> v, i |-> i, r |-> r, p |-> p],
   values |-> [v |-> OhText(v), i |-> OhText(i), r |-> OhText(r), p |-> OhText(p)],
   calculated |-> calculated]

OhFailed(msg, values) ==
  [error |-> msg, raw |-> OhBlank, values |-> values, calculated |-> <<>>]

(* the six formula pairs, selected by the two fields present *)
OhPair(values) ==
  LET has == OhInputs(values)
      v == parseFloat(values.v)
      i == parseFloat(values.i)
      r == parseFloat(values.r)
      p == parseFloat(values.p)
  IN  IF {"v", "i"} \subseteq has
        THEN OhSolved(v, i, Div(v, i), Mul(v, i), <<"r", "p">>)
      ELSE IF {"v", "r"} \subseteq has
        THEN OhSolved(v, Div(v, r), r, Div(Mul(v, v), r), <<"i", "p">>)
      ELSE IF {"v", "p"} \subseteq has
        THEN OhSolved(v, Div(p, v), Div(Mul(v, v), p), p, <<"i", "r">>)
      ELSE IF {"i", "r"} \subseteq has
        THEN OhSolved(Mul(i, r), i, r, Mul(Mul(i, i), r), <<"v", "p">>)
      ELSE IF {"i", "p"} \subseteq has
        THEN OhSolved(Div(p, i), i, Div(p, Mul(i, i)), p, <<"v", "r">>)
      ELSE OhSolved(MathSqrt(Mul(p, r)), MathSqrt(Div(p, r)), r, p, <<"v", "i">>)

OhWrongCount(values) == Cardinality(OhInputs(values)) # 2

(* what calculate does with the field texts; no operation of the try block *)
(* throws, so the catch branch is never taken                              *)
OhOutcome(values) ==
  IF OhWrongCount(values) THEN OhFailed("enter exactly 2 values", values)
  ELSE OhPair(values)

OhHandleChange(key, value) ==
  /\ mode = "ohms-law"
  /\ ohCalculatedKeys' = <<>>
  /\ ohError' = "null"
  /\ ohValues' = [ohValues EXCEPT ![key] = value]
  /\ ohLast' = Last("handleChange", OhBlank, <<>>, "null", "null", ohLast.solves)
  /\ UNCHANGED <<netVars, toolVars, dvVars, ledVars, rcVars>>

OhHandleClear ==
  /\ mode = "ohms-law"
  /\ ohValues' = OhBlank
  /\ ohCalculatedKeys' = <<>>
  /\ ohError' = "null"
  /\ ohLast' = Last("handleClear", OhBlank, <<>>, "null", "null", 0)
  /\ UNCHANGED <<netVars, toolVars, dvVars, ledVars, rcVars>>

OhCalculate ==
  LET out == OhOutcome(ohValues)
      ok  == out.error = "null"
  IN  /\ mode = "ohms-law"
      /\ ohLast.solves < MaxSolves
      /\ ohError' = IF ok THEN ohError ELSE out.error
      /\ ohValues' = out.values
      /\ ohCalculatedKeys' = IF ok THEN out.calculated ELSE ohCalculatedKeys
      /\ ohLast' = Last("calculate", ohValues, ohCalculatedKeys, ohError,
                        "null", ohLast.solves + (IF ok THEN 1 ELSE 0))
      /\ UNCHANGED <<netVars, toolVars, dvVars, ledVars, rcVars>>

(* the state of a freshly mounted OhmsLawCalculator *)
OhMounted ==
  [values |-> OhBlank, calculatedKeys |-> <<>>, error |-> "null",
   last |-> Last("init", OhBlank, <<>>, "null", "null", 0)]

OhNext ==
  \/ \E j \in 1..4 : \E t \in OhTexts(OhmsFields[j]) :
       OhHandleChange(OhmsFields[j], t)
  \/ OhHandleClear
  \/ OhCalculate

--------------------------------------------------------------------------
(* LEDCalculator *)

LedFields == <<"sourceVoltage", "ledVoltage", "ledCurrent">>

(* the forward voltages of LED_PRESETS *)
LED_PRESETS == {Num(2), Dec(21, -1), Dec(32, -1)}

(* texts typed into the fields *)
LedTexts(field) ==
  CASE field = "sourceVoltage" -> {Blank, Zero, Num(5), Num(2), Num(-1)}
    [] field = "ledVoltage"    -> {Blank, Zero, Num(5), Num(-2)}
    [] field = "ledCurrent"    -> {Blank, Zero, Num(20), Num(15)}

NoResult == [none |-> TRUE]

LedInitialValues ==
  [sourceVoltage |-> Num(5), ledVoltage |-> Num(2), ledCurrent |-> Num(20)]

LedBlank == [sourceVoltage |-> Blank, ledVoltage |-> Blank, ledCurrent |-> Blank]

(* the LEDResult computed from the three parsed inputs *)
LedSolve(vs, vf, if_mA) ==
  LET if_A == Div(if_mA, Num(1000))
  IN  [resistance |-> Div(Sub(vs, vf), if_A),
       resistorPower |-> Mul(Sub(vs, vf), if_A),
       ledPower |-> Mul(vf, if_A)]

(* the test `vs <= vf` weakened to `vs < vf` *)
LedInvalidStrict(vs, vf) == Lt(vs, vf)

LedInvalid(vs, vf) == Le(vs, vf)

(* what calculate does: nothing, the alert, or a new result *)
LedOutcome(values) ==
  LET vs == parseFloat(values.sourceVoltage)
      vf == parseFloat(values.ledVoltage)
      if_mA == parseFloat(values.ledCurrent)
  IN  IF IsNaN(vs) \/ IsNaN(vf) \/ IsNaN(if_mA)
        THEN [signal |-> "null", stored |-> FALSE, result |-> NoResult]
      ELSE IF LedInvalid(vs, vf)
        THEN [signal |-> "alert: supply voltage must exceed LED voltage",
              stored |-> FALSE, result |-> NoResult]
      ELSE [signal |-> "null", stored |-> TRUE, result |-> LedSolve(vs, vf, if_mA)]

LedSetValue(field, value) ==
  /\ mode = "led"
  /\ ledValues' = [ledValues EXCEPT ![field] = value]
  /\ ledLast' = Last("setValues", LedBlank, NoResult, "null", "null", 0)
  /\ UNCHANGED <<ledResult, netVars, toolVars, dvVars, ohVars, rcVars>>

handlePreset(voltage) ==
  /\ mode = "led"
  /\ ledValues' = [ledValues EXCEPT !.ledVoltage = voltage]
  /\ ledLast' = Last("handlePreset", LedBlank, NoResult, "null", "null", 0)
  /\ UNCHANGED <<ledResult, netVars, toolVars, dvVars, ohVars, rcVars>>

LedClear ==
  /\ mode = "led"
  /\ ledValues' = LedBlank
  /\ ledResult' = NoResult
  /\ ledLast' = Last("clear", LedBlank, NoResult, "null", "null", 0)
  /\ UNCHANGED <<netVars, toolVars, dvVars, ohVars, rcVars>>

LedCalculate ==
  LET out == LedOutcome(ledValues)
  IN  /\ mode = "led"
      /\ ledResult' = IF out.stored THEN out.result ELSE ledResult
      /\ ledLast' = Last("calculate", ledValues, ledResult, "null", out.signal, 0)
      /\ UNCHANGED <<ledValues, netVars, toolVars, dvVars, ohVars, rcVars>>

(* the state of a freshly mounted LEDCalculator *)
LedMounted ==
  [values |-> LedInitialValues, result |-> NoResult,
   last |-> Last("init", LedBlank, NoResult, "null", "null", 0)]

LedNext ==
  \/ \E j \in 1..3 : \E t \in LedTexts(LedFields[j]) : LedSetValue(LedFields[j], t)
  \/ \E voltage \in LED_PRESETS : handlePreset(voltage)
  \/ LedClear
  \/ LedCalculate

--------------------------------------------------------------------------
(* RCCalculator: the filter tab *)

(* Math.PI, to seven significant digits *)
MathPI == Q(355, 113)

(* UNITS: the multipliers the unit selectors offer *)
UNITS ==
  [R |-> {Num(1), Dec(1, 3), Dec(1, 6)},
   C |-> {Dec(1, -12), Dec(1, -9), Dec(1, -6), Dec(1, -3)},
   F |-> {Num(1), Dec(1, 3), Dec(1, 6)},
   T |-> {Num(1), Dec(1, -3), Dec(1, -6)}]

(* texts typed into the fields and units selected by the model *)
RcTexts == {Blank, Zero, Num(1)}

RcUnitChoices(field) ==
  CASE field = "rUnit" -> {u \in UNITS.R : Ge(u, Dec(1, 3))}
    [] field = "cUnit" -> {u \in UNITS.C : Ge(u, Dec(1, -9)) /\ Le(u, Dec(1, -6))}
    [] field = "fUnit" -> {u \in UNITS.F : Le(u, Dec(1, 3))}

RcInitialValues ==
  [r |-> Blank, rUnit |-> Dec(1, 3), c |-> Blank, cUnit |-> Dec(1, -6),
   f |-> Blank, fUnit |-> Num(1)]

(* the reciprocal with the factor 2 left out *)
ReciprocalPi(a, b) == Div(Num(1), Mul(Mul(MathPI, a), b))

(* 1 / (2 * Math.PI * a * b) *)
Reciprocal2Pi(a, b) == Div(Num(1), Mul(Mul(Mul(Num(2), MathPI), a), b))

bestFUnit(fc) ==
  IF Ge(fc, Dec(1, 6)) THEN Dec(1, 6)
  ELSE IF Ge(fc, Dec(1, 3)) THEN Dec(1, 3)
  ELSE Num(1)

bestCUnit(cCalc) ==
  IF Lt(cCalc, Dec(1, -9)) THEN Dec(1, -12)
  ELSE IF Lt(cCalc, Dec(1, -6)) THEN Dec(1, -9)
  ELSE IF Lt(cCalc, Dec(1, -3)) THEN Dec(1, -6)
  ELSE Dec(1, -3)

bestRUnit(rCalc) ==
  IF Ge(rCalc, Dec(1, 6)) THEN Dec(1, 6)
  ELSE IF Ge(rCalc, Dec(1, 3)) THEN Dec(1, 3)
  ELSE Num(1)

(* a failure that leaves the frequency field emptied *)
RcFailedBlanking(msg, values) ==
  [error |-> msg, stored |-> FALSE, result |-> NoResult,
   values |-> [values EXCEPT !.f = Blank]]

RcFailed(msg, values) ==
  [error |-> msg, stored |-> FALSE, result |-> NoResult, values |-> values]

RcSolved(tau, fc, values) ==
  [error |-> "null", stored |-> TRUE, result |-> [tau |-> tau, fc |-> fc],
   values |-> values]

(* the scaled value of a field: NaN when its text does not parse *)
RcScaled(text, unit) ==
  IF ~IsNaN(parseFloat(text)) THEN Mul(parseFloat(text), unit) ELSE NaN

(* what calculateFilter does with the field texts and units *)
RcFilterOutcome(values) ==
  LET r == RcScaled(values.r, values.rUnit)
      c == RcScaled(values.c, values.cUnit)
      f == RcScaled(values.f, values.fUnit)
  IN  IF ~IsNaN(r) /\ ~IsNaN(c)
        THEN LET fc == Reciprocal2Pi(r, c)
             IN  RcSolved(Mul(r, c), fc,
                   [values EXCEPT !.f = ToFixed(Div(fc, bestFUnit(fc)), 2),
                                  !.fUnit = bestFUnit(fc)])
      ELSE IF ~IsNaN(r) /\ ~IsNaN(f)
        THEN IF Eq(f, Zero) THEN RcFailed("frequency must not be 0", values)
             ELSE LET cCalc == Reciprocal2Pi(r, f)
                  IN  RcSolved(Mul(r, cCalc), f,
                        [values EXCEPT !.c = ToFixed(Div(cCalc, bestCUnit(cCalc)), 2),
                                       !.cUnit = bestCUnit(cCalc)])
      ELSE IF ~IsNaN(c) /\ ~IsNaN(f)
        THEN IF Eq(f, Zero) THEN RcFailed("frequency must not be 0", values)
             ELSE IF Eq(c, Zero) THEN RcFailed("capacitance must not be 0", values)
             ELSE LET rCalc == Reciprocal2Pi(c, f)
                  IN  RcSolved(Mul(rCalc, c), f,
                        [values EXCEPT !.r = ToFixed(Div(rCalc, bestRUnit(rCalc)), 2),
                                       !.rUnit = bestRUnit(rCalc)])
      ELSE RcFailed("enter any 2 values", values)

setTab(t) ==
  /\ mode = "rc-time"
  /\ rcTab' = t
  /\ rcLast' = Last("setTab", RcInitialValues, NoResult, "null", "null", rcLast.solves)
  /\ UNCHANGED <<rcValues, rcResult, rcDelayValues, rcDelayResult, rcError,
                 netVars, toolVars, dvVars, ohVars, ledVars>>

handleFilterChange(field, value) ==
  /\ mode = "rc-time"
  /\ rcTab = "filter"
  /\ rcValues' = [rcValues EXCEPT ![field] = value]
  /\ rcResult' = NoResult
  /\ rcError' = "null"
  /\ rcLast' = Last("handleFilterChange", RcInitialValues, NoResult, "null",
                    "null", rcLast.solves)
  /\ UNCHANGED <<rcTab, rcDelayValues, rcDelayResult, netVars, toolVars, dvVars, ohVars,
                 ledVars>>

RcFilterClear ==
  /\ mode = "rc-time"
  /\ rcTab = "filter"
  /\ rcValues' = RcInitialValues
  /\ rcResult' = NoResult
  /\ rcError' = "null"
  /\ rcLast' = Last("clear", RcInitialValues, NoResult, "null", "null",
                    [rcLast.solves EXCEPT !.filter = 0])
  /\ UNCHANGED <<rcTab, rcDelayValues, rcDelayResult, netVars, toolVars, dvVars, ohVars,
                 ledVars>>

calculateFilter ==
  LET out == RcFilterOutcome(rcValues)
  IN  /\ mode = "rc-time"
      /\ rcTab = "filter"
      /\ rcLast.solves.filter < MaxSolves
      /\ rcValues' = out.values
      /\ rcResult' = IF out.stored THEN out.result ELSE rcResult
      /\ rcError' = IF out.stored THEN rcError ELSE out.error
      /\ rcLast' = Last("calculateFilter", rcValues, rcResult, rcError, out.error,
                        [rcLast.solves EXCEPT
                           !.filter = @ + (IF out.stored THEN 1 ELSE 0)])
      /\ UNCHANGED <<rcTab, rcDelayValues, rcDelayResult, netVars, toolVars, dvVars, ohVars,
                     ledVars>>

--------------------------------------------------------------------------
(* RCCalculator: the delay tab *)

(* texts typed into the delay fields and units selected by the model *)
DelayTexts(field) ==
  CASE field = "vin"     -> {Blank, Num(5)}
    [] field = "vtarget" -> {Blank, Zero, Num(5)}
    [] field = "r"       -> {Blank, Zero, Dec(1, -3)}
    [] field = "c"       -> {Zero, Num(100)}
    [] field = "t"       -> {Blank, Zero, Num(1)}

DelayUnitChoices(field) ==
  CASE field = "cUnit" -> {u \in UNITS.C : Eq(u, Dec(1, -12))}

DelayInitialValues ==
  [vin |-> Num(5), vtarget |-> Dec(316, -2), r |-> Num(10), rUnit |-> Dec(1, 3),
   c |-> Num(100), cUnit |-> Dec(1, -6), t |-> Blank, tUnit |-> Num(1)]

(* bestTUnit left at its initial value, seconds *)
bestTUnitSeconds(timeCalc) == Num(1)

bestTUnit(timeCalc) ==
  IF Lt(timeCalc, Dec(1, -3)) THEN Dec(1, -6)
  ELSE IF Lt(timeCalc, Num(1)) THEN Dec(1, -3)
  ELSE Num(1)

DelayFailed(msg, values) ==
  [error |-> msg, stored |-> FALSE, result |-> NoResult, values |-> values]

DelaySolved(t, tau, values) ==
  [error |-> "null", stored |-> TRUE, result |-> [t |-> t, tau |-> tau],
   values |-> values]

(* hasR, hasC and hasTime with the test `> 0` left out *)
DelayHasParsed(x) == ~IsNaN(x)

(* hasR, hasC and hasTime: the scaled value is a number above 0 *)
DelayHas(x) == ~IsNaN(x) /\ Gt(x, Zero)

(* the time with the sign of tau kept: tau * Math.log(1 - vtarget / vin) *)
DelayTimeUnsigned(tau, vtarget, vin) ==
  Mul(tau, MathLog(Sub(Num(1), Div(vtarget, vin))))

(* -tau * Math.log(1 - vtarget / vin) *)
DelayTime(tau, vtarget, vin) ==
  Mul(Neg(tau), MathLog(Sub(Num(1), Div(vtarget, vin))))

(* the voltage of a discharge, vin * Math.exp(-t / tau) *)
DelayVoltageDischarge(vin, t, tau) == Mul(vin, MathExp(Div(Neg(t), tau)))

(* vin * (1 - Math.exp(-t / tau)) *)
DelayVoltage(vin, t, tau) ==
  Mul(vin, Sub(Num(1), MathExp(Div(Neg(t), tau))))

(* what calculateDelay does with the field texts and units *)
RcDelayOutcome(values) ==
  LET vin     == parseFloat(values.vin)
      vtarget == parseFloat(values.vtarget)
      r       == Mul(parseFloat(values.r), values.rUnit)
      c       == Mul(parseFloat(values.c), values.cUnit)
      t       == Mul(parseFloat(values.t), values.tUnit)
      hasTarget == ~IsNaN(vtarget)
      hasTime == DelayHas(t)
      tau     == Mul(r, c)
  IN  IF IsNaN(vin) THEN DelayFailed("enter the supply voltage (Vin)", values)
      ELSE IF ~DelayHas(r) \/ ~DelayHas(c)
        THEN DelayFailed("enter the resistance and the capacitance", values)
      ELSE IF hasTarget /\ ~hasTime
        THEN IF Ge(vtarget, vin)
               THEN DelayFailed("target voltage must be below the supply voltage",
                                values)
             ELSE IF Le(vtarget, Zero)
               THEN DelayFailed("target voltage must be above 0", values)
             ELSE LET timeCalc == DelayTime(tau, vtarget, vin)
                  IN  DelaySolved(timeCalc, tau,
                        [values EXCEPT
                           !.t = ToFixed(Div(timeCalc, bestTUnit(timeCalc)), 3),
                           !.tUnit = bestTUnit(timeCalc)])
      ELSE IF hasTime
        THEN DelaySolved(t, tau,
               [values EXCEPT !.vtarget = ToFixed(DelayVoltage(vin, t, tau), 3)])
      ELSE DelaySolved(tau, tau, values)

handleDelayChange(field, value) ==
  /\ mode = "rc-time"
  /\ rcTab = "delay"
  /\ rcDelayValues' = [rcDelayValues EXCEPT ![field] = value]
  /\ rcError' = "null"
  /\ rcLast' = Last("handleDelayChange", RcInitialValues, NoResult, "null",
                    "null", rcLast.solves)
  /\ UNCHANGED <<rcTab, rcValues, rcResult, rcDelayResult, netVars, toolVars, dvVars,
                 ohVars, ledVars>>

RcDelayClear ==
  /\ mode = "rc-time"
  /\ rcTab = "delay"
  /\ rcDelayValues' = DelayInitialValues
  /\ rcDelayResult' = NoResult
  /\ rcError' = "null"
  /\ rcLast' = Last("clearDelay", RcInitialValues, NoResult, "null", "null",
                    [rcLast.solves EXCEPT !.delay = 0])
  /\ UNCHANGED <<rcTab, rcValues, rcResult, netVars, toolVars, dvVars, ohVars, ledVars>>

calculateDelay ==
  LET out == RcDelayOutcome(rcDelayValues)
  IN  /\ mode = "rc-time"
      /\ rcTab = "delay"
      /\ rcLast.solves.delay < MaxSolves
      /\ rcDelayValues' = out.values
      /\ rcDelayResult' = IF out.stored THEN out.result ELSE rcDelayResult
      /\ rcError' = IF out.stored THEN rcError ELSE out.error
      /\ rcLast' = Last("calculateDelay", rcDelayValues, rcDelayResult, rcError,
                        out.error,
                        [rcLast.solves EXCEPT
                           !.delay = @ + (IF out.stored THEN 1 ELSE 0)])
      /\ UNCHANGED <<rcTab, rcValues, rcResult, netVars, toolVars, dvVars, ohVars, ledVars>>

(* the state of a freshly mounted RCCalculator *)
RcMounted ==
  [tab |-> "filter", values |-> RcInitialValues, result |-> NoResult,
   delayValues |-> DelayInitialValues, delayResult |-> NoResult,
   error |-> "null",
   last |-> Last("init", RcInitialValues, NoResult, "null", "null",
                 [filter |-> 0, delay |-> 0])]

(* the events of the filter form *)
RcFilterEvents ==
  \/ \E field \in {"r", "c", "f"} : \E t \in RcTexts : handleFilterChange(field, t)
  \/ \E field \in {"rUnit", "cUnit", "fUnit"} : \E u \in RcUnitChoices(field) :
       handleFilterChange(field, u)
  \/ RcFilterClear
  \/ calculateFilter

RcNext ==
  \/ \E t \in {"filter", "delay"} : setTab(t)
  \/ RcFilterEvents

DelayFieldNames == {"vin", "vtarget", "r", "c", "t"}

(* the events of the delay form *)
RcDelayEvents ==
  \/ \E field \in DelayFieldNames : \E t \in DelayTexts(field) :
       handleDelayChange(field, t)
  \/ \E field \in {"cUnit"} : \E u \in DelayUnitChoices(field) :
       handleDelayChange(field, u)
  \/ RcDelayClear
  \/ calculateDelay

RcDelayNext ==
  \/ \E t \in {"filter", "delay"} : setTab(t)
  \/ RcDelayEvents

--------------------------------------------------------------------------
(* BatteryLifeCalculator *)

(* texts typed into the capacity and current fields *)
BatTexts(field) ==
  CASE field = "capacity" -> {Blank, Zero, Num(2000), Num(1999), Num(119)}
    [] field = "current"  -> {Blank, Zero, Num(100), Num(10), Num(120)}

(* positions of the efficiency slider (0.5 to 1.0 in steps of 0.05) *)
BatEfficiencies == {Dec(5, -1), Dec(85, -2), Num(1)}

(* the result string: the days and hours parts are left out when they are *)
(* not above 0 (Blank), the minutes part and the decimal hours always     *)
(* appear                                                                  *)
BatResultString(days, remHours, minutes, hours) ==
  [days |-> IF Gt(days, Zero) THEN days ELSE Blank,
   hours |-> IF Gt(remHours, Zero) THEN remHours ELSE Blank,
   minutes |-> minutes,
   totalHours |-> ToFixed(hours, 1)]

(* the minutes part: the fraction of an hour rounded to whole minutes *)
BatMinutes(hours) ==
  MathRound(Mul(Sub(hours, MathFloor(hours)), Num(60)))

(* what calculate does: nothing, or a new result string *)
BatOutcome(capacity, current, efficiency) ==
  LET cap  == parseFloat(capacity)
      curr == parseFloat(current)
  IN  IF IsNaN(cap) \/ IsNaN(curr) \/ Eq(curr, Zero)
        THEN [stored |-> FALSE, result |-> NoResult]
      ELSE LET hours    == Div(Mul(cap, efficiency), curr)
               days     == MathFloor(Div(hours, Num(24)))
               remHours == MathFloor(JsRem(hours, Num(24)))
               minutes  == BatMinutes(hours)
           IN  [stored |-> TRUE,
                result |-> BatResultString(days, remHours, minutes, hours)]

BatNoInputs == [capacity |-> Blank, current |-> Blank, efficiency |-> Blank]

setCapacity(text) ==
  /\ mode = "battery-life"
  /\ batCapacity' = text
  /\ batLast' = Last("setCapacity", BatNoInputs, NoResult, "null", "null", 0)
  /\ UNCHANGED <<batCurrent, batEfficiency, batResult, ccVars, fmtVars, netVars,
                 dvVars, ohVars, ledVars, rcVars>>

setCurrent(text) ==
  /\ mode = "battery-life"
  /\ batCurrent' = text
  /\ batLast' = Last("setCurrent", BatNoInputs, NoResult, "null", "null", 0)
  /\ UNCHANGED <<batCapacity, batEfficiency, batResult, ccVars, fmtVars, netVars,
                 dvVars, ohVars, ledVars, rcVars>>

setEfficiency(value) ==
  /\ mode = "battery-life"
  /\ batEfficiency' = value
  /\ batLast' = Last("setEfficiency", BatNoInputs, NoResult, "null", "null", 0)
  /\ UNCHANGED <<batCapacity, batCurrent, batResult, ccVars, fmtVars, netVars,
                 dvVars, ohVars, ledVars, rcVars>>

BatClear ==
  /\ mode = "battery-life"
  /\ batCapacity' = Blank
  /\ batCurrent' = Blank
  /\ batResult' = NoResult
  /\ batLast' = Last("clear", BatNoInputs, NoResult, "null", "null", 0)
  /\ UNCHANGED <<batEfficiency, ccVars, fmtVars, netVars, dvVars, ohVars, ledVars,
                 rcVars>>

BatCalculate ==
  LET out == BatOutcome(batCapacity, batCurrent, batEfficiency)
  IN  /\ mode = "battery-life"
      /\ batResult' = IF out.stored THEN out.result ELSE batResult
      /\ batLast' = Last("calculate",
                         [capacity |-> batCapacity, current |-> batCurrent,
                          efficiency |-> batEfficiency],
                         batResult, "null",
                         IF out.stored THEN "stored" ELSE "null", 0)
      /\ UNCHANGED <<batCapacity, batCurrent, batEfficiency, ccVars, fmtVars,
                     netVars, dvVars, ohVars, ledVars, rcVars>>

(* the state of a freshly mounted BatteryLifeCalculator *)
BatMounted ==
  [capacity |-> Num(2000), current |-> Num(100), efficiency |-> Dec(85, -2),
   result |-> NoResult,
   last |-> Last("init", BatNoInputs, NoResult, "null", "null", 0)]

BatNext ==
  \/ \E t \in BatTexts("capacity") : setCapacity(t)
  \/ \E t \in BatTexts("current") : setCurrent(t)
  \/ \E e \in BatEfficiencies : setEfficiency(e)
  \/ BatClear
  \/ BatCalculate

--------------------------------------------------------------------------
(* ColorCodeCalculator *)

ColorDef(value, multiplier, tolerance) ==
  [value |-> value, multiplier |-> multiplier, tolerance |-> tolerance]

(* COLORS[key]: the numeric attributes of a colour, Undefined where the    *)
(* table has none; a key outside the table has none at all                 *)
COLORS(key) ==
  CASE key = "black"  -> ColorDef(Num(0), Num(1), Undefined)
    [] key = "brown"  -> ColorDef(Num(1), Num(10), Num(1))
    [] key = "red"    -> ColorDef(Num(2), Num(100), Num(2))
    [] key = "orange" -> ColorDef(Num(3), Num(1000), Undefined)
    [] key = "yellow" -> ColorDef(Num(4), Num(10000), Undefined)
    [] key = "green"  -> ColorDef(Num(5), Num(100000), Dec(5, -1))
    [] key = "blue"   -> ColorDef(Num(6), Num(1000000), Dec(25, -2))
    [] key = "violet" -> ColorDef(Num(7), Num(10000000), Dec(1, -1))
    [] key = "grey"   -> ColorDef(Num(8), Num(100000000), Dec(5, -2))
    [] key = "white"  -> ColorDef(Num(9), Num(1000000000), Undefined)
    [] key = "gold"   -> ColorDef(Undefined, Dec(1, -1), Num(5))
    [] key = "silver" -> ColorDef(Undefined, Dec(1, -2), Num(10))
    [] OTHER          -> ColorDef(Undefined, Undefined, Undefined)

(* the colour keys the model assigns to a band: colours with and without a *)
(* digit value, with and without a tolerance                               *)
ColorChoices == {"black", "brown", "red", "orange", "gold"}

FourBandColors == <<"brown", "black", "red", "gold">>

(* the two significant digits with the tens weight left out *)
Digits2NoTens(d1, d2) == Add(d1, d2)

Digits2(d1, d2) == Add(Mul(d1, Num(10)), d2)

Digits3(d1, d2, d3) == Add(Add(Mul(d1, Num(100)), Mul(d2, Num(10))), d3)

(* colors[index] with a zero-based index: a key outside the table when     *)
(* the list is too short                                                   *)
ColorAt(colors, index) ==
  IF index + 1 \in DOMAIN colors THEN colors[index + 1] ELSE "undefined"

(* calculate(): the resistance and the tolerance of the selected bands *)
ColorCalculate(bands, colors) ==
  IF bands = 4 /\ Len(colors) >= 4
    THEN LET d1   == OrDefault(COLORS(ColorAt(colors, 0)).value, Zero)
             d2   == OrDefault(COLORS(ColorAt(colors, 1)).value, Zero)
             mult == OrDefault(COLORS(ColorAt(colors, 2)).multiplier, Zero)
         IN  [resistance |-> Mul(Digits2(d1, d2), mult),
              tolerance |-> OrDefault(COLORS(ColorAt(colors, 3)).tolerance, Num(20))]
  ELSE IF bands = 5 /\ Len(colors) >= 5
    THEN LET d1   == OrDefault(COLORS(ColorAt(colors, 0)).value, Zero)
             d2   == OrDefault(COLORS(ColorAt(colors, 1)).value, Zero)
             d3   == OrDefault(COLORS(ColorAt(colors, 2)).value, Zero)
             mult == OrDefault(COLORS(ColorAt(colors, 3)).multiplier, Zero)
         IN  [resistance |-> Mul(Digits3(d1, d2, d3), mult),
              tolerance |-> OrDefault(COLORS(ColorAt(colors, 4)).tolerance, Num(20))]
  ELSE [resistance |-> Zero, tolerance |-> Zero]

(* one rendering of the component: calculate() applied to the state *)
ColorRender ==
  /\ mode = "color-code"
  /\ ccResult' = ColorCalculate(ccBands, ccColors)
  /\ UNCHANGED <<ccBands, ccColors, batVars, fmtVars, netVars, dvVars, ohVars,
                 ledVars, rcVars>>

(* the state of a freshly mounted ColorCodeCalculator *)
ColorMounted ==
  [bands |-> 4, colors |-> FourBandColors,
   result |-> ColorCalculate(4, FourBandColors)]


(* COLOR_KEYS: the order of the selectors *)
COLOR_KEYS ==
  <<"black", "brown", "red", "orange", "yellow", "green", "blue", "violet",
    "grey", "white", "gold", "silver">>

FiveBandColors == <<"brown", "black", "black", "brown", "brown">>

(* isValidColor with the tolerance test applied to every position *)
isValidColorTolerance(colorKey, position, totalBands) ==
  COLORS(colorKey).tolerance # Undefined

(* the role of a position decides which attribute the colour must have *)
isValidColor(colorKey, position, totalBands) ==
  IF position = totalBands - 1 THEN COLORS(colorKey).tolerance # Undefined
  ELSE IF position = totalBands - 2 THEN COLORS(colorKey).multiplier # Undefined
  ELSE COLORS(colorKey).value # Undefined

(* the buttons the selector of band `index` renders *)
BandSelector(index) ==
  {COLOR_KEYS[j] : j \in {j \in DOMAIN COLOR_KEYS :
                            isValidColor(COLOR_KEYS[j], index, ccBands)}}

(* the buttons the model presses: colours with and without each attribute *)
ColorPicks == {"black", "brown", "orange", "grey", "gold", "silver"}

(* handleModeChange with the colour list left as it is *)
handleModeChangeKeepColors(newBands) ==
  /\ mode = "color-code"
  /\ ccBands' = newBands
  /\ ccColors' = ccColors
  /\ ccResult' = ColorCalculate(newBands, ccColors)
  /\ UNCHANGED <<batVars, fmtVars, netVars, dvVars, ohVars, ledVars, rcVars>>

handleModeChange(newBands) ==
  /\ mode = "color-code"
  /\ ccBands' = newBands
  /\ ccColors' = IF newBands = 4 THEN FourBandColors ELSE FiveBandColors
  /\ ccResult' = ColorCalculate(newBands,
                   IF newBands = 4 THEN FourBandColors ELSE FiveBandColors)
  /\ UNCHANGED <<batVars, fmtVars, netVars, dvVars, ohVars, ledVars, rcVars>>

updateColor(index, colorKey) ==
  /\ mode = "color-code"
  /\ index + 1 \in DOMAIN ccColors
  /\ ccColors' = [ccColors EXCEPT ![index + 1] = colorKey]
  /\ ccResult' = ColorCalculate(ccBands, [ccColors EXCEPT ![index + 1] = colorKey])
  /\ UNCHANGED <<ccBands, batVars, fmtVars, netVars, dvVars, ohVars, ledVars,
                 rcVars>>

ColorNext ==
  \/ \E newBands \in {4, 5} : handleModeChange(newBands)
  \/ \E index \in 0..(ccBands - 1) :
       \E colorKey \in BandSelector(index) \cap ColorPicks :
         updateColor(index, colorKey)
--------------------------------------------------------------------------
(* App: formatUnit *)

(* the magnitudes formatUnit is applied to *)
FmtExponents == -12..10

FmtInputs ==
  {Zero} \cup {Dec(m, e) : m \in {1, 15, 999}, e \in FmtExponents}

FmtScaled(value, suffix) ==
  [value |-> value, suffix |-> suffix, text |-> ToFixed(value, 3)]

(* the branch for 0 < value < 1 with the milli step only *)
FmtSubUnitMilli(value) == FmtScaled(Mul(value, Num(1000)), "m")

(* the branch for 0 < value < 1 *)
FmtSubUnit(value) ==
  IF Lt(value, Dec(1, -6)) THEN FmtScaled(Mul(value, Num(1000000000)), "n")
  ELSE IF Lt(value, Dec(1, -3)) THEN FmtScaled(Mul(value, Num(1000000)), "u")
  ELSE FmtScaled(Mul(value, Num(1000)), "m")

(* formatUnit(num, unit): the scaled value, the prefix put before the unit *)
(* and the value as toLocaleString shows it, with at most 3 decimals       *)
formatUnit(num) ==
  IF Ge(num, Num(1000000)) THEN FmtScaled(Div(num, Num(1000000)), "M")
  ELSE IF Ge(num, Num(1000)) THEN FmtScaled(Div(num, Num(1000)), "k")
  ELSE IF Lt(num, Num(1)) /\ Gt(num, Zero) THEN FmtSubUnit(num)
  ELSE FmtScaled(num, "")

(* one application of formatUnit to the argument *)
FormatApply ==
  /\ fmtOut' = formatUnit(fmtNum)
  /\ UNCHANGED <<fmtNum, batVars, ccVars, netVars, dvVars, ohVars, ledVars, rcVars>>

--------------------------------------------------------------------------
(* App: mode switching, initial state and the specifications *)

(* the effect on mode with the Parallel branch left out *)
ModeEffectSeriesOnly(m) ==
  IF m = Series THEN "voltage" ELSE inputType

(* the effect that runs when mode has changed: the source kind it leaves *)
ModeEffect(m) ==
  IF m = Series THEN "voltage"
  ELSE IF m = Parallel THEN "current"
  ELSE inputType

(* setMode, the effect that runs when mode has changed, and renderContent: *)
(* the calculator of the old mode is unmounted and the one of the new mode *)
(* is mounted with its initial state                                       *)
setMode(m) ==
  /\ mode' = m
  /\ inputType' = IF m = mode THEN inputType ELSE ModeEffect(m)
  /\ IF m = mode THEN UNCHANGED calcVars
     ELSE /\ dvValues' = DvMounted.values
          /\ dvCalculatedField' = DvMounted.calculatedField
          /\ dvError' = DvMounted.error
          /\ dvLast' = DvMounted.last
          /\ ohValues' = OhMounted.values
          /\ ohCalculatedKeys' = OhMounted.calculatedKeys
          /\ ohError' = OhMounted.error
          /\ ohLast' = OhMounted.last
          /\ ledValues' = LedMounted.values
          /\ ledResult' = LedMounted.result
          /\ ledLast' = LedMounted.last
          /\ rcTab' = RcMounted.tab
          /\ rcValues' = RcMounted.values
          /\ rcResult' = RcMounted.result
          /\ rcDelayValues' = RcMounted.delayValues
          /\ rcDelayResult' = RcMounted.delayResult
          /\ rcError' = RcMounted.error
          /\ rcLast' = RcMounted.last
          /\ batCapacity' = BatMounted.capacity
          /\ batCurrent' = BatMounted.current
          /\ batEfficiency' = BatMounted.efficiency
          /\ batResult' = BatMounted.result
          /\ batLast' = BatMounted.last
          /\ ccBands' = ColorMounted.bands
          /\ ccColors' = ColorMounted.colors
          /\ ccResult' = ColorMounted.result
          /\ UNCHANGED fmtVars
  /\ UNCHANGED <<sourceValue, resistors>>

Init ==
  /\ mode = Series
  /\ sourceValue = Num(10)
  /\ inputType = "voltage"
  /\ resistors = <<[id |-> 1, value |-> Num(100), multiplier |-> Num(1)],
                   [id |-> 2, value |-> Num(200), multiplier |-> Num(1)]>>
  /\ dvValues = DvMounted.values
  /\ dvCalculatedField = DvMounted.calculatedField
  /\ dvError = DvMounted.error
  /\ dvLast = DvMounted.last
  /\ ohValues = OhMounted.values
  /\ ohCalculatedKeys = OhMounted.calculatedKeys
  /\ ohError = OhMounted.error
  /\ ohLast = OhMounted.last
  /\ ledValues = LedMounted.values
  /\ ledResult = LedMounted.result
  /\ ledLast = LedMounted.last
  /\ rcTab = RcMounted.tab
  /\ rcValues = RcMounted.values
  /\ rcResult = RcMounted.result
  /\ rcDelayValues = RcMounted.delayValues
  /\ rcDelayResult = RcMounted.delayResult
  /\ rcError = RcMounted.error
  /\ rcLast = RcMounted.last
  /\ batCapacity = BatMounted.capacity
  /\ batCurrent = BatMounted.current
  /\ batEfficiency = BatMounted.efficiency
  /\ batResult = BatMounted.result
  /\ batLast = BatMounted.last
  /\ ccBands = ColorMounted.bands
  /\ ccColors = ColorMounted.colors
  /\ ccResult = ColorMounted.result
  /\ fmtNum = Zero
  /\ fmtOut = NoResult

(* the handlers of the series / parallel view *)
NetNext ==
  \/ addResistor
  \/ \E j \in DOMAIN resistors : removeResistor(resistors[j].id)
  \/ \E j \in DOMAIN resistors, t \in ResistorTexts :
       updateResistor(resistors[j].id, "value", OrZero(parseFloat(t)))
  \/ \E j \in DOMAIN resistors, u \in MultiplierChoices :
       updateResistor(resistors[j].id, "multiplier", u)
  \/ \E t \in SourceTexts : setSourceValue(t)
  \/ \E t \in {"voltage", "current"} : setInputType(t)

(* the resistor network: the mode buttons and the series / parallel view *)
NetSpecNext == (\E m \in ModeChoices : setMode(m)) \/ NetNext

SpecNet == Init /\ [][NetSpecNext]_vars

(* the mode buttons of the header and the source card of the series /     *)
(* parallel view                                                           *)
ModesNext ==
  \/ \E m \in CalculationMode : setMode(m)
  \/ \E t \in {"voltage", "current"} : setInputType(t)
  \/ \E t \in SourceTexts : setSourceValue(t)
  \/ addResistor
  \/ \E j \in DOMAIN resistors : removeResistor(resistors[j].id)

SpecModes == Init /\ [][ModesNext]_vars

(* the voltage divider, reached from the initial mode *)
DividerNext == setMode("voltage-divider") \/ DvNext

SpecDivider == Init /\ [][DividerNext]_vars

(* the Ohm's-law calculator *)
OhmsNext == setMode("ohms-law") \/ OhNext

SpecOhms == Init /\ [][OhmsNext]_vars

(* the LED calculator *)
LEDNext == setMode("led") \/ LedNext

SpecLED == Init /\ [][LEDNext]_vars

(* the RC calculator *)
RCNext == setMode("rc-time") \/ RcNext

SpecRC == Init /\ [][RCNext]_vars

(* the battery-life calculator *)
BatteryNext == setMode("battery-life") \/ BatNext

SpecBattery == Init /\ [][BatteryNext]_vars

(* the delay tab of the RC calculator *)
DelayNext == setMode("rc-time") \/ RcDelayNext

SpecDelay == Init /\ [][DelayNext]_vars

(* the colour-code calculator *)
ColorCodeNext == setMode("color-code") \/ ColorNext

SpecColor == Init /\ [][ColorCodeNext]_vars

(* the two calculators that solve for the missing fields *)
SolversNext ==
  \/ \E m \in {"voltage-divider", "ohms-law"} : setMode(m)
  \/ DvNext
  \/ OhNext

SpecSolvers == Init /\ [][SolversNext]_vars


(* both forms of the RC calculator are as mounted *)
RcFresh ==
  /\ rcValues = RcMounted.values
  /\ rcResult = RcMounted.result
  /\ rcDelayValues = RcMounted.delayValues
  /\ rcDelayResult = RcMounted.delayResult

(* the five calculators with a calculate step that can fail, one form at   *)
(* a time: the tab of the RC calculator is switched while both of its      *)
(* forms are as mounted                                                    *)
CalculatorsNext ==
  \/ \E m \in {"voltage-divider", "ohms-law", "led", "rc-time"} : setMode(m)
  \/ DvNext
  \/ OhNext
  \/ LedNext
  \/ \E t \in {"filter", "delay"} : RcFresh /\ setTab(t)
  \/ RcFilterEvents
  \/ RcDelayEvents

SpecCalculators == Init /\ [][CalculatorsNext]_vars

(* the state before calculate() is applied to an assignment of colour keys *)
(* to the bands                                                            *)
InitColorCode ==
  /\ mode = "color-code"
  /\ sourceValue = Num(10)
  /\ inputType = "voltage"
  /\ resistors = <<[id |-> 1, value |-> Num(100), multiplier |-> Num(1)],
                   [id |-> 2, value |-> Num(200), multiplier |-> Num(1)]>>
  /\ dvValues = DvMounted.values
  /\ dvCalculatedField = DvMounted.calculatedField
  /\ dvError = DvMounted.error
  /\ dvLast = DvMounted.last
  /\ ohValues = OhMounted.values
  /\ ohCalculatedKeys = OhMounted.calculatedKeys
  /\ ohError = OhMounted.error
  /\ ohLast = OhMounted.last
  /\ ledValues = LedMounted.values
  /\ ledResult = LedMounted.result
  /\ ledLast = LedMounted.last
  /\ rcTab = RcMounted.tab
  /\ rcValues = RcMounted.values
  /\ rcResult = RcMounted.result
  /\ rcDelayValues = RcMounted.delayValues
  /\ rcDelayResult = RcMounted.delayResult
  /\ rcError = RcMounted.error
  /\ rcLast = RcMounted.last
  /\ batCapacity = BatMounted.capacity
  /\ batCurrent = BatMounted.current
  /\ batEfficiency = BatMounted.efficiency
  /\ batResult = BatMounted.result
  /\ batLast = BatMounted.last
  /\ ccBands \in {4, 5}
  /\ ccColors \in [1..ccBands -> ColorChoices]
  /\ ccResult = NoResult
  /\ fmtNum = Zero
  /\ fmtOut = NoResult

(* calculate() applied to every assignment of colour keys *)
SpecColorCode == InitColorCode /\ [][ColorRender]_vars

(* the state before formatUnit is applied to a magnitude *)
InitFormat ==
  /\ mode = Series
  /\ sourceValue = Num(10)
  /\ inputType = "voltage"
  /\ resistors = <<[id |-> 1, value |-> Num(100), multiplier |-> Num(1)],
                   [id |-> 2, value |-> Num(200), multiplier |-> Num(1)]>>
  /\ dvValues = DvMounted.values
  /\ dvCalculatedField = DvMounted.calculatedField
  /\ dvError = DvMounted.error
  /\ dvLast = DvMounted.last
  /\ ohValues = OhMounted.values
  /\ ohCalculatedKeys = OhMounted.calculatedKeys
  /\ ohError = OhMounted.error
  /\ ohLast = OhMounted.last
  /\ ledValues = LedMounted.values
  /\ ledResult = LedMounted.result
  /\ ledLast = LedMounted.last
  /\ rcTab = RcMounted.tab
  /\ rcValues = RcMounted.values
  /\ rcResult = RcMounted.result
  /\ rcDelayValues = RcMounted.delayValues
  /\ rcDelayResult = RcMounted.delayResult
  /\ rcError = RcMounted.error
  /\ rcLast = RcMounted.last
  /\ batCapacity = BatMounted.capacity
  /\ batCurrent = BatMounted.current
  /\ batEfficiency = BatMounted.efficiency
  /\ batResult = BatMounted.result
  /\ batLast = BatMounted.last
  /\ ccBands = ColorMounted.bands
  /\ ccColors = ColorMounted.colors
  /\ ccResult = ColorMounted.result
  /\ fmtNum \in FmtInputs
  /\ fmtOut = NoResult

(* formatUnit applied to every magnitude of FmtInputs *)
SpecFormat == InitFormat /\ [][FormatApply]_vars

(* the field values calculateDelay is applied to: every sign of Vin and of *)
(* the target, long and short time constants                               *)
DelaySolveInputs ==
  {[DelayInitialValues EXCEPT !.vin = vin, !.vtarget = vtarget, !.r = r,
                              !.cUnit = cUnit, !.t = t] :
     vin \in {Blank, Zero, Num(5), Num(-5)},
     vtarget \in {Blank, Zero, Num(1), Dec(316, -2), Num(5), Num(-6)},
     r \in {Num(10), Dec(1, -3)},
     cUnit \in {Dec(1, -6), Dec(1, -12)},
     t \in {Blank, Zero}}

(* the state before calculateDelay is applied to the field values *)
InitDelaySolve ==
  /\ mode = "rc-time"
  /\ sourceValue = Num(10)
  /\ inputType = "voltage"
  /\ resistors = <<[id |-> 1, value |-> Num(100), multiplier |-> Num(1)],
                   [id |-> 2, value |-> Num(200), multiplier |-> Num(1)]>>
  /\ dvValues = DvMounted.values
  /\ dvCalculatedField = DvMounted.calculatedField
  /\ dvError = DvMounted.error
  /\ dvLast = DvMounted.last
  /\ ohValues = OhMounted.values
  /\ ohCalculatedKeys = OhMounted.calculatedKeys
  /\ ohError = OhMounted.error
  /\ ohLast = OhMounted.last
  /\ ledValues = LedMounted.values
  /\ ledResult = LedMounted.result
  /\ ledLast = LedMounted.last
  /\ rcTab = "delay"
  /\ rcValues = RcMounted.values
  /\ rcResult = RcMounted.result
  /\ rcDelayValues \in DelaySolveInputs
  /\ rcDelayResult = RcMounted.delayResult
  /\ rcError = RcMounted.error
  /\ rcLast = RcMounted.last
  /\ batCapacity = BatMounted.capacity
  /\ batCurrent = BatMounted.current
  /\ batEfficiency = BatMounted.efficiency
  /\ batResult = BatMounted.result
  /\ batLast = BatMounted.last
  /\ ccBands = ColorMounted.bands
  /\ ccColors = ColorMounted.colors
  /\ ccResult = ColorMounted.result
  /\ fmtNum = Zero
  /\ fmtOut = NoResult

(* calculateDelay applied to every assignment of DelaySolveInputs *)
SpecDelaySolve == InitDelaySolve /\ [][calculateDelay]_vars
--------------------------------------------------------------------------
(* Claims about the resistor network (specification SpecNet) *)

SumDrops(res) ==
  SumSeq([j \in DOMAIN res.calculatedResistors |->
            res.calculatedResistors[j].voltageDrop])

SumFlows(res) ==
  SumSeq([j \in DOMAIN res.calculatedResistors |->
            res.calculatedResistors[j].currentFlow])

AllZeroResistance == \A j \in DOMAIN resistors : actualResistance(resistors[j]) = Zero

(* every resistor of the results carries the total current *)
SharedCurrent(res) ==
  \A j \in DOMAIN res.calculatedResistors :
    res.calculatedResistors[j].currentFlow = res.totalCurrent

(* every resistor of the results sees the total voltage *)
SharedVoltage(res) ==
  \A j \in DOMAIN res.calculatedResistors :
    res.calculatedResistors[j].voltageDrop = res.totalVoltage

(* C1: after any sequence of addResistor, removeResistor and updateResistor *)
(* from the initial two-resistor list the list holds at least one resistor, *)
(* and no step taken from a one-element list removes its element.           *)
C1_NeverEmpty ==
  /\ [](Len(resistors) >= 1)
  /\ [][Len(resistors) = 1 =>
          /\ Len(resistors') >= 1
          /\ resistors'[1].id = resistors[1].id]_vars

C1_Witness == Len(resistors) = 1 /\ resistors[1].id = 2

(* C2 as stated: in series mode with a voltage source the voltage drops    *)
(* add up to totalVoltage and every currentFlow is totalCurrent.           *)
C2_Original ==
  (mode = Series /\ inputType = "voltage") =>
    LET res == results
    IN  SumDrops(res) = res.totalVoltage /\ SharedCurrent(res)

(* C2 amended: in series mode with a voltage source every currentFlow is   *)
(* totalCurrent, and the voltage drops add up to totalVoltage whenever the *)
(* total resistance is positive (with total resistance 0 the current and   *)
(* every drop are 0 whatever the source voltage).                          *)
C2_SeriesKirchhoff ==
  (mode = Series /\ inputType = "voltage") =>
    LET res == results
    IN  /\ SharedCurrent(res)
        /\ Gt(res.totalResistance, Zero) => SumDrops(res) = res.totalVoltage
        /\ ~Gt(res.totalResistance, Zero) => SumDrops(res) = Zero

C2_Witness ==
  /\ mode = Series /\ inputType = "voltage"
  /\ Len(resistors) = 3
  /\ sourceValue = Num(10)
  /\ \E j \in DOMAIN resistors : resistors[j].multiplier = Num(1000)
  /\ \E j \in DOMAIN resistors : actualResistance(resistors[j]) = Zero
  /\ results.totalResistance = Num(100200)

(* C3 as stated: in parallel mode, for either source kind, the branch      *)
(* currents add up to totalCurrent and every voltageDrop is totalVoltage.  *)
C3_Original ==
  mode = Parallel =>
    LET res == results
    IN  SumFlows(res) = res.totalCurrent /\ SharedVoltage(res)

(* C3 amended: in parallel mode every voltageDrop is totalVoltage, and the *)
(* branch currents add up to totalCurrent whenever the source is a voltage *)
(* source or some resistance is positive; with a current source and no     *)
(* positive resistance every branch current is 0.                          *)
C3_ParallelKirchhoff ==
  mode = Parallel =>
    LET res == results
    IN  /\ SharedVoltage(res)
        /\ (inputType = "voltage" \/ Gt(res.totalResistance, Zero)) =>
             SumFlows(res) = res.totalCurrent
        /\ (inputType = "current" /\ ~Gt(res.totalResistance, Zero)) =>
             SumFlows(res) = Zero

C3_Witness ==
  /\ mode = Parallel /\ inputType = "current"
  /\ Len(resistors) = 3
  /\ sourceValue = Num(10)
  /\ \E j \in DOMAIN resistors : actualResistance(resistors[j]) = Zero
  /\ \E j \in DOMAIN resistors : actualResistance(resistors[j]) = Num(100000)
  /\ \E j \in DOMAIN resistors : actualResistance(resistors[j]) = Num(200)

NonNegativeResistances ==
  \A j \in DOMAIN resistors : ~Lt(actualResistance(resistors[j]), Zero)

PositiveConductance ==
  LET positive == SelectSeq(resistors, LAMBDA r : Gt(actualResistance(r), Zero))
  IN  SumSeq([j \in DOMAIN positive |-> Div(Num(1), actualResistance(positive[j]))])

(* every output of one resistor is a finite number *)
FiniteOutputs(c) ==
  /\ IsFin(c.voltageDrop) /\ IsFin(c.currentFlow)
  /\ IsFin(c.power) /\ IsFin(c.sharePercentage)

(* C4: the solver has no error path and divides by nothing that is zero:   *)
(* in both modes and for both source kinds every total and every           *)
(* per-resistor output is a finite number; a series network with Rtotal = 0*)
(* under a voltage source has Itotal = 0; a parallel network without       *)
(* conductance has Rtotal = 0; a zero-resistance parallel element adds     *)
(* nothing to the conductance and carries no current; and totalPower is    *)
(* totalVoltage * totalCurrent.                                            *)
C4_NoSingularity ==
  (mode \in {Series, Parallel} /\ NonNegativeResistances) =>
    LET res == results
    IN  /\ IsFin(res.totalResistance) /\ IsFin(res.totalCurrent)
        /\ IsFin(res.totalVoltage) /\ IsFin(res.totalPower)
        /\ \A j \in DOMAIN res.calculatedResistors :
             LET c == res.calculatedResistors[j]
             IN  /\ FiniteOutputs(c)
                 /\ (mode = Parallel /\ c.actualResistance = Zero) =>
                      c.currentFlow = Zero
        /\ (mode = Series /\ inputType = "voltage"
              /\ res.totalResistance = Zero) => res.totalCurrent = Zero
        /\ (mode = Parallel /\ AllZeroResistance) => res.totalResistance = Zero
        /\ (mode = Parallel /\ ~AllZeroResistance) =>
             Mul(res.totalResistance, PositiveConductance) = Num(1)
        /\ res.totalPower = Mul(res.totalVoltage, res.totalCurrent)

C4_Witness ==
  /\ mode = Parallel /\ inputType = "voltage"
  /\ sourceValue = Num(10)
  /\ Len(resistors) >= 2
  /\ ~AllZeroResistance
  /\ \E j \in DOMAIN resistors : actualResistance(resistors[j]) = Zero

--------------------------------------------------------------------------
(* The power balance of the resistor network *)

SumPowers(res) ==
  SumSeq([j \in DOMAIN res.calculatedResistors |->
            res.calculatedResistors[j].power])

(* C29: for every list of non-negative resistances, in series and in       *)
(* parallel mode and for both source kinds, the per-resistor power values  *)
(* add up to totalPower, which is totalVoltage * totalCurrent; this        *)
(* includes the networks whose total resistance or conductance is 0.       *)
C29_PowerBalance ==
  (mode \in {Series, Parallel} /\ NonNegativeResistances) =>
    LET res == results
    IN  /\ res.totalPower = Mul(res.totalVoltage, res.totalCurrent)
        /\ SumPowers(res) = res.totalPower

(* a current source feeding three parallel resistors, one of them 0 ohm *)
C29_Witness ==
  /\ mode = Parallel /\ inputType = "current"
  /\ sourceValue = Num(10)
  /\ Len(resistors) = 3
  /\ \E j \in DOMAIN resistors : actualResistance(resistors[j]) = Zero
  /\ \E j \in DOMAIN resistors : actualResistance(resistors[j]) = Num(100000)
  /\ Gt(results.totalPower, Zero)
--------------------------------------------------------------------------
(* Claims about the voltage divider and the Ohm's-law calculator          *)
(* (specifications SpecSolvers, SpecDivider and SpecOhms)                 *)

DvInsufficient == "enter exactly 3 values"

OhInsufficient == "enter exactly 2 values"

(* C5: a calculate of the voltage divider reports InsufficientInputs       *)
(* exactly when the number of parseable fields is not 3, a calculate of    *)
(* the Ohm's-law calculator exactly when it is not 2; and a calculate that *)
(* reports it derives nothing: the field texts and the derived-field marks *)
(* are the ones it found.                                                  *)
C5_InsufficientInputs ==
  /\ dvLast.op = "calculate" =>
       /\ (DvValidCount(dvLast.values) # 3) <=> (dvError = DvInsufficient)
       /\ DvValidCount(dvLast.values) # 3 =>
            /\ dvValues = dvLast.values
            /\ dvCalculatedField = dvLast.marks
  /\ ohLast.op = "calculate" =>
       /\ (Cardinality(OhInputs(ohLast.values)) # 2) <=> (ohError = OhInsufficient)
       /\ Cardinality(OhInputs(ohLast.values)) # 2 =>
            /\ ohValues = ohLast.values
            /\ ohCalculatedKeys = ohLast.marks

(* a second calculate on the divider form a first one completed: four      *)
(* parseable fields                                                        *)
C5_Witness ==
  /\ dvLast.op = "calculate"
  /\ DvValidCount(dvLast.values) = 4
  /\ dvLast.solves = 1
  /\ dvError = DvInsufficient
  /\ dvCalculatedField = "vout"

(* the field of the divider whose text does not parse, when there is one *)
DvMissing(values) ==
  CHOOSE f \in {"vout", "ra", "rb", "vin"} : IsNaN(parseFloat(values[f]))

(* the reference error conditions of the divider *)
DvRefFails(values) ==
  LET vin == values.vin  ra == values.ra  rb == values.rb  vout == values.vout
      f == DvMissing(values)
  IN  CASE f = "vout" -> Eq(Add(ra, rb), Zero)
        [] f = "ra" -> \/ Eq(vout, Zero)
                       \/ Lt(MathAbs(Sub(vin, vout)), Dec(1, -6))
                       \/ Lt(Mul(rb, Sub(Div(vin, vout), Num(1))), Zero)
        [] f = "rb" -> \/ Eq(vin, vout)
                       \/ Lt(Div(Mul(vout, ra), Sub(vin, vout)), Zero)
        [] f = "vin" -> Eq(rb, Zero)

(* the reference formulas of the divider *)
DvRefValue(values) ==
  LET vin == values.vin  ra == values.ra  rb == values.rb  vout == values.vout
      f == DvMissing(values)
  IN  CASE f = "vout" -> Div(Mul(vin, rb), Add(ra, rb))
        [] f = "ra" -> Mul(rb, Sub(Div(vin, vout), Num(1)))
        [] f = "rb" -> Div(Mul(vout, ra), Sub(vin, vout))
        [] f = "vin" -> Div(Mul(vout, Add(ra, rb)), rb)

(* C7: a calculate of the divider that finds exactly three parseable       *)
(* fields reports an error exactly under the reference error condition of  *)
(* the missing field and then changes no field; otherwise it marks the     *)
(* missing field as derived and writes the reference value, shown with 3   *)
(* decimals, into that field and no other.                                 *)
C7_DividerReference ==
  (dvLast.op = "calculate" /\ DvValidCount(dvLast.values) = 3) =>
    IF DvRefFails(dvLast.values)
      THEN /\ dvError \notin {"null", DvInsufficient}
           /\ dvValues = dvLast.values
           /\ dvCalculatedField = dvLast.marks
      ELSE /\ dvError = "null"
           /\ dvCalculatedField = DvMissing(dvLast.values)
           /\ dvValues = [dvLast.values EXCEPT ![DvMissing(dvLast.values)] =
                            ToFixed(DvRefValue(dvLast.values), 3)]

(* Vin = 9, Ra = 1000, Rb = 2000 gives Vout = 6.000 *)
C7_Witness ==
  /\ dvLast.op = "calculate"
  /\ dvLast.values = [vin |-> Num(9), ra |-> Num(1000), rb |-> Num(2000),
                      vout |-> Blank]
  /\ dvValues = [vin |-> Num(9), ra |-> Num(1000), rb |-> Num(2000),
                 vout |-> Num(6)]
  /\ dvCalculatedField = "vout"
  /\ dvError = "null"

--------------------------------------------------------------------------
(* Claims about the Ohm's-law calculator (specification SpecOhms) *)

(* the last handler was a calculate that found exactly two parseable       *)
(* fields, i.e. a solve the calculator reports as successful               *)
OhSolvedLast ==
  /\ ohLast.op = "calculate"
  /\ Cardinality(OhInputs(ohLast.values)) = 2
  /\ ohError = "null"

(* x is not finite, or negative, or the square of a rational: the cases   *)
(* on which the model's Math.sqrt is exact                                 *)
SqrtExact(x) ==
  \/ x.k # "fin"
  \/ x.n <= 0
  \/ LET m == (IF x.e % 2 # 0 THEN x.n * 10 ELSE x.n) * x.d
     IN  ISqrt(m) * ISqrt(m) = m

(* the solve of `values` takes no inexact square root *)
OhExact(values) ==
  OhInputs(values) = {"r", "p"} =>
    /\ SqrtExact(Mul(values.p, values.r))
    /\ SqrtExact(Div(values.p, values.r))

(* C8 as stated: after every successful solve the four values, before they *)
(* are rounded to 4 decimals, satisfy V = I * R and P = V * I, and the     *)
(* derived fields are exactly the two that were absent.                    *)
C8_OhmsConsistent ==
  (OhSolvedLast /\ OhExact(ohLast.values)) =>
    LET raw == OhOutcome(ohLast.values).raw
    IN  /\ Eq(raw.v, Mul(raw.i, raw.r))
        /\ Eq(raw.p, Mul(raw.v, raw.i))
        /\ Range(ohCalculatedKeys) = {"v", "i", "r", "p"} \ OhInputs(ohLast.values)

(* |a - b| <= 0.0001 *)
WithinRounding(a, b) == Le(MathAbs(Sub(parseFloat(a), parseFloat(b))), Dec(1, -4))

(* the form after the user empties V and I, leaving the derived R and P *)
OhKeepRP(values) == [values EXCEPT !.v = Blank, !.i = Blank]

(* the last handler was a successful solve from the pair (V, I) *)
OhSolvedFromVI == OhSolvedLast /\ OhInputs(ohLast.values) = {"v", "i"}

(* the second solve of the round trip reproduces V and I *)
OhRoundTrips ==
  LET back == OhOutcome(OhKeepRP(ohValues))
  IN  /\ back.error = "null"
      /\ WithinRounding(back.values.v, ohLast.values.v)
      /\ WithinRounding(back.values.i, ohLast.values.i)

(* C9 as stated: after a successful solve from any pair (V, I), solving    *)
(* again from the derived (R, P) alone reproduces V and I within 0.0001.   *)
C9_Original == OhSolvedFromVI => OhRoundTrips

(* C9 amended: the round trip reproduces V and I within 0.0001 when V and  *)
(* I are finite, V > 0 and I > 0, and the derived R = V / I and P = V * I  *)
(* are shown unrounded by their 4 decimals.                                *)
C9_RoundTrip ==
  (/\ OhSolvedFromVI
   /\ IsFin(ohLast.values.v) /\ IsFin(ohLast.values.i)
   /\ Gt(ohLast.values.v, Zero) /\ Gt(ohLast.values.i, Zero)
   /\ ohValues.r = Div(ohLast.values.v, ohLast.values.i)
   /\ ohValues.p = Mul(ohLast.values.v, ohLast.values.i)
   /\ OhExact(OhKeepRP(ohValues)))
    => OhRoundTrips

(* V = 10, I = 2 gives R = 5, P = 20, from which V = 10, I = 2 *)
C9_Witness ==
  /\ OhSolvedFromVI
  /\ ohLast.values.v = Num(10) /\ ohLast.values.i = Num(2)
  /\ ohValues = [v |-> Num(10), i |-> Num(2), r |-> Num(5), p |-> Num(20)]
  /\ OhOutcome(OhKeepRP(ohValues)).values = ohValues

--------------------------------------------------------------------------
(* Claims about the RC filter calculator (specification SpecRC) *)

(* the number of the quantities R, C, f whose text parses *)
RcSupplied(values) ==
  Cardinality({k \in {"r", "c", "f"} : ~IsNaN(parseFloat(values[k]))})

(* C6 as stated: a calculateFilter that finds 0, 1 or 3 of R, C, f         *)
(* parseable reports InsufficientInputs and derives nothing: the fields,   *)
(* the units and the stored result are the ones it found.                  *)
C6_ExactlyTwo ==
  (rcLast.op = "calculateFilter" /\ RcSupplied(rcLast.values) # 2) =>
    /\ rcError = "enter any 2 values"
    /\ rcValues = rcLast.values
    /\ rcResult = rcLast.marks

--------------------------------------------------------------------------
(* Claims about the LED resistor calculator (specification SpecLED) *)

LedAlert == "alert: supply voltage must exceed LED voltage"

(* all three field texts parse *)
LedParseable(values) ==
  \A j \in 1..3 : ~IsNaN(parseFloat(values[LedFields[j]]))

(* the reference values R, resistorPower and ledPower *)
LedReference(values) ==
  LET vs == values.sourceVoltage
      vf == values.ledVoltage
      amps == Div(values.ledCurrent, Num(1000))
  IN  [resistance |-> Div(Sub(vs, vf), amps),
       resistorPower |-> Mul(Sub(vs, vf), amps),
       ledPower |-> Mul(vf, amps)]

(* a calculate stores the reference result when all three inputs parse and *)
(* Vs > Vf, and otherwise leaves the stored result as it found it          *)
LedStoresOnlyValid ==
  LET in == ledLast.values
  IN  IF LedParseable(in) /\ Gt(in.sourceVoltage, in.ledVoltage)
        THEN ledResult = LedReference(in)
        ELSE ledResult = ledLast.marks

(* C10 as stated: calculate stores a result only when all three inputs     *)
(* parse and Vs > Vf, the stored values being the reference values; and    *)
(* whenever Vs <= Vf it raises the InvalidConfiguration alert.             *)
C10_Original ==
  ledLast.op = "calculate" =>
    /\ LedStoresOnlyValid
    /\ Le(parseFloat(ledLast.values.sourceVoltage),
          parseFloat(ledLast.values.ledVoltage)) => ledLast.signal = LedAlert

(* C10 amended: calculate stores a result only when all three inputs parse *)
(* and Vs > Vf, the stored values being the reference values; it raises    *)
(* the InvalidConfiguration alert exactly when all three inputs parse and  *)
(* Vs <= Vf, and returns silently when some input does not parse.          *)
C10_LedContract ==
  ledLast.op = "calculate" =>
    /\ LedStoresOnlyValid
    /\ (ledLast.signal = LedAlert) <=>
         /\ LedParseable(ledLast.values)
         /\ Le(ledLast.values.sourceVoltage, ledLast.values.ledVoltage)

(* Vs = Vf = 5 with a parseable current: the alert, and the result of an   *)
(* earlier calculate still stored                                          *)
C10_Witness ==
  /\ ledLast.op = "calculate"
  /\ ledLast.values.sourceVoltage = Num(5)
  /\ ledLast.values.ledVoltage = Num(5)
  /\ ledLast.values.ledCurrent = Num(20)
  /\ ledLast.signal = LedAlert
  /\ ledResult = [resistance |-> Num(150), resistorPower |-> Dec(6, -2),
                  ledPower |-> Dec(4, -2)]


(* the reference value 1 / (2 pi a b) of the filter formulas *)
RcRefReciprocal(a, b) == Div(Num(1), Mul(Mul(Mul(Num(2), MathPI), a), b))

(* the fields and units of `after` other than those in `keys` are the ones *)
(* of `before`                                                             *)
RcSameExcept(before, after, keys) ==
  \A k \in DOMAIN before \ keys : after[k] = before[k]

(* C11: a calculateFilter that finds exactly two of R, C, f fails exactly  *)
(* when f is supplied and is 0, or C and f are supplied and C is 0 (so the *)
(* R&C solve never fails, the R&f solve fails iff f = 0, the C&f solve iff *)
(* f = 0 or C = 0); a successful solve stores tau = R * C of the resulting *)
(* pair and fc = the supplied f when f was supplied, and rewrites only the *)
(* field and the unit of the missing quantity.                             *)
C11_FilterPairs ==
  (rcLast.op = "calculateFilter" /\ RcSupplied(rcLast.values) = 2) =>
    LET in == rcLast.values
        r  == RcScaled(in.r, in.rUnit)
        c  == RcScaled(in.c, in.cUnit)
        f  == RcScaled(in.f, in.fUnit)
        failed == rcLast.signal # "null"
        R  == IF IsNaN(r) THEN RcRefReciprocal(c, f) ELSE r
        C  == IF IsNaN(c) THEN RcRefReciprocal(r, f) ELSE c
        missing == IF IsNaN(r) THEN {"r", "rUnit"}
                   ELSE IF IsNaN(c) THEN {"c", "cUnit"}
                   ELSE {"f", "fUnit"}
    IN  /\ failed <=> (~IsNaN(f) /\ (Eq(f, Zero) \/ (IsNaN(r) /\ Eq(c, Zero))))
        /\ failed => rcError = rcLast.signal
        /\ ~failed =>
             /\ rcResult # NoResult
             /\ rcResult.tau = Mul(R, C)
             /\ ~IsNaN(f) => rcResult.fc = f
             /\ RcSameExcept(in, rcValues, missing)

(* R = 1 kOhm and f = 1 Hz give C = 159.15 uF *)
C11_Witness ==
  /\ rcLast.op = "calculateFilter"
  /\ rcLast.signal = "null"
  /\ rcLast.values.r = Num(1) /\ rcLast.values.rUnit = Dec(1, 3)
  /\ rcLast.values.f = Num(1) /\ rcLast.values.fUnit = Num(1)
  /\ rcLast.values.c = Blank
  /\ rcResult.fc = Num(1)
  /\ rcValues.c = Dec(15915, -2) /\ rcValues.cUnit = Dec(1, -6)

--------------------------------------------------------------------------
(* Claims about the delay tab of the RC calculator (specification SpecDelay) *)

(* the inputs of a calculateDelay, as the numbers the handler reads; a     *)
(* quantity is given when it parses and, for R, C and the time, is above 0 *)
DelayInputs(values) ==
  LET r == Mul(parseFloat(values.r), values.rUnit)
      c == Mul(parseFloat(values.c), values.cUnit)
      t == Mul(parseFloat(values.t), values.tUnit)
  IN  [vin |-> parseFloat(values.vin), vtarget |-> parseFloat(values.vtarget),
       r |-> r, c |-> c, t |-> t,
       vinGiven |-> ~IsNaN(parseFloat(values.vin)),
       rcGiven |-> /\ ~IsNaN(r) /\ Gt(r, Zero)
                   /\ ~IsNaN(c) /\ Gt(c, Zero),
       targetGiven |-> ~IsNaN(parseFloat(values.vtarget)),
       timeGiven |-> ~IsNaN(t) /\ Gt(t, Zero)]

(* a target is given, no time is given, and not 0 < Vtarget < Vin *)
DelayTargetInvalid(in) ==
  /\ in.targetGiven /\ ~in.timeGiven
  /\ ~(Gt(in.vtarget, Zero) /\ Lt(in.vtarget, in.vin))

(* the last calculateDelay reported an error and changed neither a field   *)
(* nor the stored result                                                   *)
DelayRejected ==
  /\ rcLast.signal # "null"
  /\ rcError = rcLast.signal
  /\ rcDelayValues = rcLast.values
  /\ rcDelayResult = rcLast.marks

(* C12: calculateDelay reports an error, and then leaves the input fields  *)
(* and the stored delay result as it found them, exactly when Vin does not *)
(* parse, or R or C is missing or not above 0, or a target is given, no    *)
(* time is given (a time is given when it parses and is above 0) and not   *)
(* 0 < Vtarget < Vin; in every other case it stores a result.              *)
C12_DelayErrors ==
  rcLast.op = "calculateDelay" =>
    LET in == DelayInputs(rcLast.values)
    IN  IF ~in.vinGiven \/ ~in.rcGiven \/ DelayTargetInvalid(in)
          THEN DelayRejected
          ELSE /\ rcLast.signal = "null"
               /\ rcDelayResult # NoResult
               /\ rcDelayResult.tau = Mul(in.r, in.c)

(* Vtarget = Vin = 5 with the time 0 typed: the error, and the result of   *)
(* an earlier calculate still stored                                       *)
C12_Witness ==
  /\ rcLast.op = "calculateDelay"
  /\ rcLast.values.vin = Num(5) /\ rcLast.values.vtarget = Num(5)
  /\ rcLast.values.t = Zero
  /\ rcLast.signal = "target voltage must be below the supply voltage"
  /\ rcDelayResult # NoResult
  /\ rcDelayValues = rcLast.values

(* the last calculateDelay solved the voltage at the given time: it wrote  *)
(* Vin (1 - e^(-t/tau)), shown with 3 decimals, into the target field only *)
DelaySolvedVoltage(in) ==
  /\ rcDelayResult = [t |-> in.t, tau |-> Mul(in.r, in.c)]
  /\ rcDelayValues =
       [rcLast.values EXCEPT !.vtarget =
          ToFixed(Mul(in.vin,
                      Sub(Num(1), MathExp(Neg(Div(in.t, Mul(in.r, in.c)))))), 3)]

(* the last calculateDelay solved for the time: it wrote                   *)
(* -tau ln(1 - Vtarget/Vin) into the time field and its unit only          *)
DelaySolvedTime(in) ==
  LET tau == Mul(in.r, in.c)
      time == Neg(Mul(tau, MathLog(Sub(Num(1), Div(in.vtarget, in.vin)))))
  IN  /\ rcDelayResult = [t |-> time, tau |-> tau]
      /\ \A k \in DOMAIN rcDelayValues \ {"t", "tUnit"} :
           rcDelayValues[k] = rcLast.values[k]
      /\ rcDelayValues.tUnit \in UNITS.T
      /\ rcDelayValues.t = ToFixed(Div(time, rcDelayValues.tUnit), 3)

(* the last calculateDelay reported tau only and changed no field *)
DelayTauOnly(in) ==
  /\ rcDelayResult = [t |-> Mul(in.r, in.c), tau |-> Mul(in.r, in.c)]
  /\ rcDelayValues = rcLast.values

(* C13 as stated: with Vin, R > 0 and C > 0 valid, calculateDelay solves   *)
(* the voltage when a time is given, solves for t and writes the time      *)
(* field when a target and no time is given, and reports tau only when     *)
(* neither is given.                                                       *)
C13_Original ==
  rcLast.op = "calculateDelay" =>
    LET in == DelayInputs(rcLast.values)
    IN  (in.vinGiven /\ in.rcGiven) =>
          IF in.timeGiven THEN DelaySolvedVoltage(in)
          ELSE IF in.targetGiven THEN DelaySolvedTime(in)
          ELSE DelayTauOnly(in)

(* C13 amended: with Vin, R > 0 and C > 0 valid, calculateDelay solves the *)
(* voltage when a time is given (with or without a target), overwriting    *)
(* the target field and leaving the time field; when a target and no time  *)
(* is given it takes the time branch, which solves for t and writes the    *)
(* time field if 0 < Vtarget < Vin and otherwise reports an error and      *)
(* writes nothing; when neither is given it reports tau only and changes   *)
(* no field.                                                               *)
C13_DelayBranches ==
  rcLast.op = "calculateDelay" =>
    LET in == DelayInputs(rcLast.values)
    IN  (in.vinGiven /\ in.rcGiven) =>
          IF in.timeGiven THEN DelaySolvedVoltage(in)
          ELSE IF in.targetGiven
            THEN IF Gt(in.vtarget, Zero) /\ Lt(in.vtarget, in.vin)
                   THEN DelaySolvedTime(in)
                   ELSE DelayRejected
          ELSE DelayTauOnly(in)

(* Vin = 5, tau = 1 s, t = 1 s with the target 3.16 present: the target    *)
(* becomes 3.161 and the time stays                                        *)
C13_Witness ==
  /\ rcLast.op = "calculateDelay"
  /\ rcLast.values.vin = Num(5)
  /\ rcLast.values.vtarget = Dec(316, -2)
  /\ rcLast.values.t = Num(1) /\ rcLast.values.tUnit = Num(1)
  /\ rcDelayValues.vtarget = Dec(3161, -3)
  /\ rcDelayValues.t = Num(1)
  /\ rcDelayResult = [t |-> Num(1), tau |-> Num(1)]
--------------------------------------------------------------------------
(* Battery life: the days / hours / minutes decomposition *)

(* a part of the result string as a number: a part left out counts 0 *)
BatPart(x) == IF x = Blank THEN Zero ELSE x

(* the runtime in hours of the inputs the last calculate read *)
BatHours(in) ==
  Div(Mul(parseFloat(in.capacity), in.efficiency), parseFloat(in.current))

(* calculate has just stored a result string *)
BatStored == batLast.op = "calculate" /\ batLast.signal = "stored"

(* C14: for every runtime hours = capacity * efficiency / current >= 0 the *)
(* reported decomposition has 0 <= hours part <= 23, 0 <= minutes part <=  *)
(* 59, and days * 1440 + hours part * 60 + minutes part equals the runtime *)
(* rounded to the nearest minute.                                          *)
C14_BatteryDecomposition ==
  BatStored /\ Ge(BatHours(batLast.values), Zero) =>
    LET h == BatPart(batResult.hours)
        m == batResult.minutes
        d == BatPart(batResult.days)
    IN  /\ Ge(h, Zero) /\ Le(h, Num(23))
        /\ Ge(m, Zero) /\ Le(m, Num(59))
        /\ Add(Add(Mul(d, Num(1440)), Mul(h, Num(60))), m)
             = MathRound(Mul(BatHours(batLast.values), Num(60)))

--------------------------------------------------------------------------
(* Colour code: the band formulas and their defaults *)

(* the digit a colour contributes: 0 when the colour has no digit value *)
CcDigit(key) ==
  IF COLORS(key).value = Undefined THEN Zero ELSE COLORS(key).value

(* the multiplier a colour contributes: 0 when it has none *)
CcMultiplier(key) ==
  IF COLORS(key).multiplier = Undefined THEN Zero ELSE COLORS(key).multiplier

(* the tolerance of a tolerance band: 20 % when the colour has none *)
CcTolerance(key) ==
  IF COLORS(key).tolerance = Undefined THEN Num(20) ELSE COLORS(key).tolerance

(* calculate() has been applied to the bands *)
CcRendered == ccResult # NoResult

(* C15: for every assignment of colour keys to the bands calculate()       *)
(* returns R = (d0*10 + d1) * multiplier for 4 bands and                   *)
(* R = (d0*100 + d1*10 + d2) * multiplier for 5 bands, where a colour      *)
(* without a digit value or multiplier contributes 0 and a tolerance band  *)
(* without a tolerance gives 20 %.                                         *)
C15_ColorFormulas ==
  CcRendered =>
    LET c == ccColors
    IN  IF ccBands = 4
          THEN /\ ccResult.resistance =
                    Mul(Add(Mul(CcDigit(c[1]), Num(10)), CcDigit(c[2])),
                        CcMultiplier(c[3]))
               /\ ccResult.tolerance = CcTolerance(c[4])
        ELSE /\ ccResult.resistance =
                  Mul(Add(Add(Mul(CcDigit(c[1]), Num(100)),
                              Mul(CcDigit(c[2]), Num(10))), CcDigit(c[3])),
                      CcMultiplier(c[4]))
             /\ ccResult.tolerance = CcTolerance(c[5])

(* brown, black, red, gold reads 1000 ohm, 5 % *)
C15_Witness ==
  /\ ccBands = 4
  /\ ccColors = <<"brown", "black", "red", "gold">>
  /\ ccResult = [resistance |-> Num(1000), tolerance |-> Num(5)]
  /\ \E d \in ColorChoices : COLORS(d).value = Undefined
  /\ \E t \in ColorChoices : COLORS(t).tolerance = Undefined

--------------------------------------------------------------------------
(* Colour code: the attributes of the static table *)

(* black through white *)
DigitColours ==
  {"black", "brown", "red", "orange", "yellow", "green", "blue", "violet",
   "grey", "white"}

MetalColours == {"gold", "silver"}

(* brown through violet *)
BrownToViolet ==
  {"brown", "red", "orange", "yellow", "green", "blue", "violet"}

(* the colours of the table that carry a tolerance *)
ToleranceColours ==
  {"brown", "red", "green", "blue", "violet", "grey", "gold", "silver"}

(* the table defines each attribute for exactly the given colours *)
TableDefines(digits, multipliers, tolerances) ==
  \A j \in DOMAIN COLOR_KEYS :
    LET key == COLOR_KEYS[j]
    IN  /\ (COLORS(key).value # Undefined) <=> (key \in digits)
        /\ (COLORS(key).multiplier # Undefined) <=> (key \in multipliers)
        /\ (COLORS(key).tolerance # Undefined) <=> (key \in tolerances)

(* the selector of every band offers exactly the colours of its role *)
SelectorsOffer(digits, multipliers, tolerances) ==
  \A index \in 0..(ccBands - 1) :
    BandSelector(index) =
      IF index = ccBands - 1 THEN tolerances
      ELSE IF index = ccBands - 2 THEN multipliers
      ELSE digits

(* C25 as stated: a digit value exactly for black through white, a         *)
(* multiplier exactly for these plus gold and silver, a tolerance exactly  *)
(* for brown through violet plus gold and silver.                          *)
C25_Original ==
  /\ TableDefines(DigitColours, DigitColours \cup MetalColours,
                  BrownToViolet \cup MetalColours)
  /\ SelectorsOffer(DigitColours, DigitColours \cup MetalColours,
                    BrownToViolet \cup MetalColours)

(* C25: the table defines a digit value exactly for black through white, a *)
(* multiplier exactly for all twelve colours, and a tolerance exactly for  *)
(* brown, red, green, blue, violet, grey, gold and silver (none for black, *)
(* orange, yellow and white); the band selectors offer these colours.      *)
C25_ColorTable ==
  /\ TableDefines(DigitColours, DigitColours \cup MetalColours, ToleranceColours)
  /\ SelectorsOffer(DigitColours, DigitColours \cup MetalColours,
                    ToleranceColours)

(* five bands with grey selected as the tolerance band: 0.05 % *)
C25_Witness ==
  /\ ccBands = 5
  /\ ccColors[5] = "grey"
  /\ ccResult.tolerance = Dec(5, -2)
--------------------------------------------------------------------------
(* Colour code: the bands after switches and selections *)

(* the attribute the role of band `index` reads from the table *)
RoleAttribute(index) ==
  LET def == COLORS(ccColors[index + 1])
  IN  IF index = ccBands - 1 THEN def.tolerance
      ELSE IF index = ccBands - 2 THEN def.multiplier
      ELSE def.value

(* the significant digits of the bands, read from the table *)
TableDigits ==
  IF ccBands = 4
  THEN Add(Mul(RoleAttribute(0), Num(10)), RoleAttribute(1))
  ELSE Add(Add(Mul(RoleAttribute(0), Num(100)), Mul(RoleAttribute(1), Num(10))),
           RoleAttribute(2))

(* C26: after every sequence of handleModeChange and of updateColor with a *)
(* colour its band selector offers, the colour list has as many entries as *)
(* there are bands, every band's colour has the attribute of its role      *)
(* (digit value, multiplier, tolerance), and the result on display is      *)
(* formed from these attributes, not from the defaults 0 and 20 %.         *)
C26_BandsCarryRole ==
  /\ ccBands \in {4, 5}
  /\ Len(ccColors) = ccBands
  /\ \A index \in 0..(ccBands - 1) : RoleAttribute(index) # Undefined
  /\ ccResult.resistance = Mul(TableDigits, RoleAttribute(ccBands - 2))
  /\ ccResult.tolerance = RoleAttribute(ccBands - 1)

(* five bands orange, grey, black, gold, silver: 38 ohm, 10 % *)
C26_Witness ==
  /\ ccBands = 5
  /\ ccColors = <<"orange", "grey", "black", "gold", "silver">>
  /\ ccResult = [resistance |-> Num(38), tolerance |-> Num(10)]
--------------------------------------------------------------------------
(* formatUnit: the prefix steps *)

(* the power of ten a prefix stands for *)
FmtStep(suffix) ==
  CASE suffix = "n" -> -9
    [] suffix = "u" -> -6
    [] suffix = "m" -> -3
    [] suffix = ""  -> 0
    [] suffix = "k" -> 3
    [] suffix = "M" -> 6
    [] suffix = "G" -> 9

(* num expressed in the step 10^p *)
FmtIn(num, p) == [num EXCEPT !.e = @ - p]

(* formatUnit has been applied to the magnitude *)
FmtApplied == fmtOut # NoResult

(* the prefix of the output is the largest step of `steps` whose mantissa  *)
(* is at least 1                                                           *)
FmtLargestStep(steps, top) ==
  /\ fmtOut.suffix \in steps
  /\ fmtOut.value = FmtIn(fmtNum, FmtStep(fmtOut.suffix))
  /\ Ge(fmtOut.value, Num(1))
  /\ fmtOut.suffix = top \/ Lt(fmtOut.value, Num(1000))

(* C16 as stated: for every non-negative magnitude formatUnit selects the  *)
(* largest prefix step among n, u, m, none, k, M, G whose mantissa is >= 1 *)
(* and returns 0 unscaled with no prefix.                                  *)
C16_Original ==
  FmtApplied =>
    IF fmtNum = Zero THEN fmtOut.suffix = "" /\ fmtOut.value = Zero
    ELSE FmtLargestStep({"n", "u", "m", "", "k", "M", "G"}, "G")

(* C16: for every non-negative magnitude formatUnit selects among the      *)
(* steps n, u, m, none, k, M: from 1e-9 upwards the largest step whose     *)
(* mantissa is >= 1 (M for everything from 1e6, there is no G), below 1e-9 *)
(* the step n with a mantissa below 1; and it returns 0 unscaled with no   *)
(* prefix.                                                                 *)
C16_FormatUnit ==
  FmtApplied =>
    IF fmtNum = Zero THEN fmtOut.suffix = "" /\ fmtOut.value = Zero
    ELSE IF Lt(fmtNum, Dec(1, -9))
      THEN /\ fmtOut.suffix = "n"
           /\ fmtOut.value = FmtIn(fmtNum, -9)
           /\ Lt(fmtOut.value, Num(1))
    ELSE FmtLargestStep({"n", "u", "m", "", "k", "M"}, "M")

(* 1.5e10 is shown as 15000 M, and 1.5e-7 as 150 n is among the inputs *)
C16_Witness ==
  /\ FmtApplied
  /\ fmtNum = Dec(15, 9)
  /\ fmtOut.suffix = "M"
  /\ fmtOut.value = Num(15000)
  /\ Dec(15, -8) \in FmtInputs

--------------------------------------------------------------------------
(* Error verdicts leave the input fields alone *)

(* the last step of a calculator was a calculate that ended in an error *)
DvErrorVerdict ==
  dvLast.op = "calculate" /\ DvOutcome(dvLast.values).error \notin {"null", "none"}

OhErrorVerdict ==
  ohLast.op = "calculate" /\ OhOutcome(ohLast.values).error # "null"

LedErrorVerdict == ledLast.op = "calculate" /\ ledLast.signal # "null"

RcFilterErrorVerdict == rcLast.op = "calculateFilter" /\ rcLast.signal # "null"

RcDelayErrorVerdict == rcLast.op = "calculateDelay" /\ rcLast.signal # "null"

(* C17: whenever the calculate step of the voltage divider, the Ohm's-law, *)
(* the LED, the RC filter or the RC delay calculator ends in an error      *)
(* verdict, every input field holds exactly the value it held before the   *)
(* step.                                                                   *)
C17_ErrorsKeepInputs ==
  /\ DvErrorVerdict => dvValues = dvLast.values
  /\ OhErrorVerdict => ohValues = ohLast.values
  /\ LedErrorVerdict => ledValues = ledLast.values
  /\ RcFilterErrorVerdict => rcValues = rcLast.values
  /\ RcDelayErrorVerdict => rcDelayValues = rcLast.values

(* the RC filter has rejected a frequency of 0 given with a resistance,    *)
(* and the fields still hold what was typed                                *)
C17_Witness ==
  /\ RcFilterErrorVerdict
  /\ rcError # "null"
  /\ rcValues.f = Zero
  /\ rcValues.r # Blank
  /\ rcValues = rcLast.values

--------------------------------------------------------------------------
(* Solving again from the derived values *)

(* the last step of the divider was a successful solve from three fields *)
DvSolvedLast ==
  /\ dvLast.op = "calculate"
  /\ DvValidCount(dvLast.values) = 3
  /\ DvOutcome(dvLast.values).error = "null"

(* the divider solved again after the supplied field g is emptied gives    *)
(* back the value of g within one unit of its third decimal                *)
DvReproduces(g) ==
  LET again == DvOutcome([dvValues EXCEPT ![g] = Blank])
  IN  /\ again.error = "null"
      /\ again.field = g
      /\ Le(MathAbs(Sub(again.text, dvValues[g])), Dec(1, -3))

DvIdempotent ==
  \A g \in {"vin", "ra", "rb", "vout"} \ {dvCalculatedField} : DvReproduces(g)

(* the form after the user empties the fields of `supplied` *)
OhKeepDerived(values, supplied) ==
  [k \in DOMAIN values |-> IF k \in supplied THEN Blank ELSE values[k]]

(* the Ohm's-law calculator solved again from the two derived values gives *)
(* back the supplied pair within 0.0001                                    *)
OhIdempotent ==
  LET supplied == OhInputs(ohLast.values)
      back     == OhOutcome(OhKeepDerived(ohValues, supplied))
  IN  /\ back.error = "null"
      /\ \A k \in supplied : WithinRounding(back.values[k], ohLast.values[k])

(* the last step of the filter form was a successful solve from two fields *)
RcSolvedLast ==
  /\ rcLast.op = "calculateFilter"
  /\ rcLast.signal = "null"
  /\ RcSupplied(rcLast.values) = 2

(* the fields of a filter form whose text parses *)
RcSuppliedFields(values) == {k \in {"r", "c", "f"} : ~IsNaN(parseFloat(values[k]))}

RcUnitOf(g) == CASE g = "r" -> "rUnit" [] g = "c" -> "cUnit" [] g = "f" -> "fUnit"

(* the value of field g of a filter form in base units *)
RcValueOf(values, g) == RcScaled(values[g], values[RcUnitOf(g)])

(* the filter solved again after the supplied field g is emptied *)
RcAgain(g) == RcFilterOutcome([rcValues EXCEPT ![g] = Blank])

(* ... gives back the value of g within one unit of the second decimal of  *)
(* the field as shown                                                      *)
RcReproduces(g) ==
  /\ RcAgain(g).error = "null"
  /\ Le(MathAbs(Sub(RcValueOf(RcAgain(g).values, g), RcValueOf(rcLast.values, g))),
        Mul(Dec(1, -2), RcAgain(g).values[RcUnitOf(g)]))

(* ... gives back the value of g within 1 % *)
RcReproducesNearly(g) ==
  /\ RcAgain(g).error = "null"
  /\ Le(Mul(Num(100),
            MathAbs(Sub(RcValueOf(RcAgain(g).values, g), RcValueOf(rcLast.values, g)))),
        RcValueOf(rcLast.values, g))

(* C18 as stated: after a successful solve of the voltage divider, the     *)
(* Ohm's-law or the RC filter calculator, emptying supplied fields so that *)
(* the derived values are among the required number of known fields and    *)
(* solving again succeeds and reproduces the emptied values within the     *)
(* display rounding.                                                       *)
C18_Original ==
  /\ DvSolvedLast => DvIdempotent
  /\ OhSolvedLast => OhIdempotent
  /\ RcSolvedLast => \A g \in RcSuppliedFields(rcLast.values) : RcReproduces(g)

(* every field of the divider shows a finite number above 0 *)
DvPositive ==
  \A f \in {"vin", "ra", "rb", "vout"} :
    IsFin(parseFloat(dvValues[f])) /\ Gt(parseFloat(dvValues[f]), Zero)

(* the 3 decimals shown did not change the value the divider derived *)
DvUnrounded == dvValues[dvCalculatedField] = DvRefValue(dvLast.values)

(* every field of the Ohm's-law form shows a finite number above 0 *)
OhPositive ==
  \A k \in {"v", "i", "r", "p"} :
    IsFin(parseFloat(ohValues[k])) /\ Gt(parseFloat(ohValues[k]), Zero)

(* the 4 decimals shown did not change the values the last solve derived *)
OhUnrounded ==
  \A k \in {"v", "i", "r", "p"} : ohValues[k] = OhOutcome(ohLast.values).raw[k]

(* every field of the filter form shows a finite number that is 1 or more *)
RcWellScaled ==
  \A k \in {"r", "c", "f"} :
    IsFin(parseFloat(rcValues[k])) /\ Ge(parseFloat(rcValues[k]), Num(1))

(* the cases in which solving again gives back the emptied values: the     *)
(* values shown are finite and above 0 and were not changed by the         *)
(* rounding of the display (divider, Ohm's law), every value is shown as   *)
(* 1 or more of its unit (RC filter)                                       *)
DvIdemCase == DvSolvedLast /\ DvPositive /\ DvUnrounded

OhIdemCase ==
  /\ OhSolvedLast /\ OhPositive /\ OhUnrounded
  /\ OhExact(OhKeepDerived(ohValues, OhInputs(ohLast.values)))

RcIdemCase == RcSolvedLast /\ RcWellScaled

(* C18: after a successful solve, emptying supplied fields so that the     *)
(* derived values are among the required number of known fields and        *)
(* solving again succeeds and reproduces the emptied values: within 0.001  *)
(* (divider) and 0.0001 (Ohm's law) when every value shown is finite,      *)
(* above 0 and unchanged by the rounding of the display; within 1 % for    *)
(* the RC filter when every value is shown as 1 or more of its unit.       *)
C18_Idempotence ==
  /\ DvIdemCase => DvIdempotent
  /\ OhIdemCase => OhIdempotent
  /\ RcIdemCase => \A g \in RcSuppliedFields(rcLast.values) : RcReproducesNearly(g)

(* R = 1 kOhm and f = 1 Hz gave C = 159.15 uF; from C and f the filter     *)
(* gives back R, from R and C it gives back f                              *)
C18_Witness ==
  /\ RcIdemCase
  /\ rcLast.values.r = Num(1) /\ rcLast.values.rUnit = Dec(1, 3)
  /\ rcLast.values.f = Num(1) /\ rcLast.values.fUnit = Num(1)
  /\ rcValues.c = Dec(15915, -2)
  /\ RcReproducesNearly("r") /\ RcReproducesNearly("f")

--------------------------------------------------------------------------
(* The derived-field marks of the divider and the Ohm's-law calculator *)

(* the last step of a calculator was an edit of a field, Clear, or the     *)
(* mounting of the component                                               *)
DvEditing == dvLast.op \in {"init", "handleChange", "handleClear"}

OhEditing == ohLast.op \in {"init", "handleChange", "handleClear"}

(* the fields the last solve of the Ohm's-law calculator derived *)
OhDerived == {"v", "i", "r", "p"} \ OhInputs(ohLast.values)

(* C19: the derived marks are set only by a successful solve and then name *)
(* exactly the field(s) that solve derived, one for the divider and two    *)
(* for Ohm's law; a calculate that fails leaves the marks as they were;    *)
(* every edit of a field, and Clear, removes every mark.                   *)
C19_DerivedMarks ==
  /\ DvEditing => dvCalculatedField = "null"
  /\ dvLast.op = "calculate" =>
       IF DvOutcome(dvLast.values).error = "null"
         THEN dvCalculatedField = DvMissing(dvLast.values)
         ELSE dvCalculatedField = dvLast.marks
  /\ OhEditing => ohCalculatedKeys = <<>>
  /\ ohLast.op = "calculate" =>
       IF OhOutcome(ohLast.values).error = "null"
         THEN /\ Len(ohCalculatedKeys) = 2
              /\ Range(ohCalculatedKeys) = OhDerived
         ELSE ohCalculatedKeys = ohLast.marks

(* an edit after a successful solve of the divider: the mark is gone while *)
(* the derived text is still in its field                                  *)
C19_Witness ==
  /\ dvLast.op = "handleChange"
  /\ dvLast.solves = 1
  /\ dvCalculatedField = "null"
  /\ DvValidCount(dvValues) = 4

--------------------------------------------------------------------------
(* Zero denominators *)

(* the text of a field parses to the number 0 *)
IsZeroText(text) == Eq(parseFloat(text), Zero)

(* the formulas of the supplied pair of the Ohm's-law calculator divide by *)
(* a supplied value that is 0                                              *)
OhZeroDivisor(values) ==
  LET has == OhInputs(values)
  IN  /\ Cardinality(has) = 2
      /\ \/ has = {"v", "i"} /\ IsZeroText(values.i)
         \/ has = {"v", "r"} /\ IsZeroText(values.r)
         \/ has = {"v", "p"} /\ (IsZeroText(values.v) \/ IsZeroText(values.p))
         \/ has = {"i", "p"} /\ IsZeroText(values.i)
         \/ has = {"r", "p"} /\ IsZeroText(values.r)

(* the LED formula R = (Vs - Vf) / If divides by a current of 0 *)
LedZeroDivisor(values) ==
  /\ LedParseable(values)
  /\ IsZeroText(values.ledCurrent)

(* the selected branch of the filter divides by 0: R * C = 0 when R and C  *)
(* are supplied, R = 0 or f = 0 when R and f are, C = 0 or f = 0 when C    *)
(* and f are                                                               *)
RcZeroDivisor(values) ==
  LET r == RcValueOf(values, "r")
      c == RcValueOf(values, "c")
      f == RcValueOf(values, "f")
  IN  IF ~IsNaN(r) /\ ~IsNaN(c) THEN Eq(r, Zero) \/ Eq(c, Zero)
      ELSE IF ~IsNaN(r) /\ ~IsNaN(f) THEN Eq(r, Zero) \/ Eq(f, Zero)
      ELSE IF ~IsNaN(c) /\ ~IsNaN(f) THEN Eq(c, Zero) \/ Eq(f, Zero)
      ELSE FALSE

(* the branch of the divider for the missing field divides by 0 *)
DvZeroDivisor(values) ==
  /\ DvValidCount(values) = 3
  /\ LET f == DvMissing(values)
     IN  CASE f = "vout" -> Eq(Add(values.ra, values.rb), Zero)
           [] f = "ra"   -> Eq(values.vout, Zero)
           [] f = "rb"   -> Eq(values.vin, values.vout)
           [] f = "vin"  -> Eq(values.rb, Zero)

(* C20: no calculator stores a successful result computed with a zero      *)
(* denominator: whenever the divisor of the selected formula is 0 (Ohm's   *)
(* law, LED with If = 0, RC filter, voltage divider) the calculate step    *)
(* ends in an error verdict or stores no result, and writes no value.      *)
C20_NoZeroDivisor ==
  /\ (ohLast.op = "calculate" /\ OhZeroDivisor(ohLast.values)) =>
       ohError # "null" /\ ohValues = ohLast.values
  /\ (ledLast.op = "calculate" /\ LedZeroDivisor(ledLast.values)) =>
       ledResult = ledLast.marks
  /\ (rcLast.op = "calculateFilter" /\ RcZeroDivisor(rcLast.values)) =>
       rcLast.signal # "null" /\ rcValues = rcLast.values
  /\ (dvLast.op = "calculate" /\ DvZeroDivisor(dvLast.values)) =>
       dvError # "null" /\ dvValues = dvLast.values

--------------------------------------------------------------------------
(* Displayed results and the current inputs *)

(* the LED result on display is what calculate derives from the fields *)
LedFresh ==
  ledResult # NoResult =>
    /\ LedOutcome(ledValues).stored
    /\ LedOutcome(ledValues).result = ledResult

(* the filter result on display belongs to fields that still solve *)
RcFilterFresh ==
  rcResult # NoResult => RcFilterOutcome(rcValues).stored

(* the delay result on display, and with it the charge curve drawn from    *)
(* its tau, belongs to the R and C of the fields                           *)
RcDelayFresh ==
  rcDelayResult # NoResult =>
    /\ RcDelayOutcome(rcDelayValues).stored
    /\ RcDelayOutcome(rcDelayValues).result.tau = rcDelayResult.tau

(* C21: in every reachable state a displayed result (LED result, RC filter *)
(* result, RC delay result and its charge curve) is the solver's result    *)
(* for the current field values: nothing computed from earlier inputs      *)
(* stays on display after an edit or after a calculate that fails.         *)
C21_NoStaleResult == LedFresh /\ RcFilterFresh /\ RcDelayFresh
--------------------------------------------------------------------------
(* Mode switches *)

(* a step that changes the active mode leaves the inputs of every view as  *)
(* they were                                                               *)
ModeKeepsInputs ==
  mode' # mode =>
    /\ resistors' = resistors
    /\ sourceValue' = sourceValue
    /\ dvValues' = dvValues
    /\ ohValues' = ohValues
    /\ ledValues' = ledValues
    /\ rcValues' = rcValues
    /\ rcDelayValues' = rcDelayValues

(* C22: switching the active mode away from a calculator and back keeps    *)
(* the calculator's inputs (resistor list and source value, the fields of  *)
(* the divider, Ohm's-law, LED and RC calculators), and exactly one mode   *)
(* of CalculationMode is active in every state.                            *)
C22_ModeKeepsInputs ==
  /\ [](mode \in CalculationMode)
  /\ [][ModeKeepsInputs]_vars

(* a step that changes the source kind without changing the mode is the    *)
(* selection made in the series / parallel view                            *)
KindSelected ==
  /\ NetworkView
  /\ resistors' = resistors
  /\ sourceValue' = sourceValue

SourceKindStep ==
  /\ (mode' # mode /\ mode' = Series) => inputType' = "voltage"
  /\ (mode' # mode /\ mode' = Parallel) => inputType' = "current"
  /\ (mode' # mode /\ mode' \notin {Series, Parallel}) => inputType' = inputType
  /\ (mode' = mode /\ inputType' # inputType) => KindSelected

(* C23: a change of the active mode to series makes the source kind        *)
(* voltage and a change to parallel makes it current; a change to any      *)
(* other mode leaves the source kind as it is; with the mode unchanged the *)
(* source kind changes only by the user's selection in the series /        *)
(* parallel view, so a selected kind persists until the next change to     *)
(* series or parallel.                                                     *)
C23_SourceKind == [][SourceKindStep]_vars

(* parallel mode with the voltage kind selected after the switch *)
C23_Witness == mode = Parallel /\ inputType = "voltage"
--------------------------------------------------------------------------
(* The error message of the RC calculator and its two tabs *)

(* a step that changes the active tab leaves no message on display *)
TabSwitchDropsError == rcTab' # rcTab => rcError' = "null"

(* a calculate that succeeded leaves no message on display *)
RcSuccessShowsNoError ==
  (rcLast.op \in {"calculateFilter", "calculateDelay"} /\ rcLast.signal = "null")
    => rcError = "null"

(* C24: an error message shown in the RC calculator was raised by the most *)
(* recent calculate of the active tab: a switch between the filter and the *)
(* delay tab carries no message across, and no message is shown after a    *)
(* successful calculate.                                                   *)
C24_ErrorOfActiveTab ==
  /\ [][TabSwitchDropsError]_vars
  /\ []RcSuccessShowsNoError
--------------------------------------------------------------------------
(* Error messages and derived-field marks *)

(* the voltage divider shows no message together with a derived field *)
DvErrorUnmarked == dvError # "null" => dvCalculatedField = "null"

(* the Ohm's-law calculator shows no message together with derived fields *)
OhErrorUnmarked == ohError # "null" => ohCalculatedKeys = <<>>

(* C27: in the voltage divider and in the Ohm's-law calculator an error    *)
(* message and a derived-field mark are never present together: a state is *)
(* Editing (no mark), Solved (marks, no message) or Error (message, no     *)
(* mark).                                                                  *)
C27_ErrorOrMarks == DvErrorUnmarked /\ OhErrorUnmarked
--------------------------------------------------------------------------
(* RC delay: the time field after a time-solve *)

(* the last handler was a calculateDelay that solved for the time *)
TimeWritten ==
  /\ rcLast.op = "calculateDelay"
  /\ rcLast.signal = "null"
  /\ DelayInputs(rcLast.values).targetGiven
  /\ ~DelayInputs(rcLast.values).timeGiven

(* the time field holds a given time and Vin, R and C are valid *)
TimeFieldGiven ==
  /\ DelayInputs(rcDelayValues).timeGiven
  /\ DelayInputs(rcDelayValues).vinGiven
  /\ DelayInputs(rcDelayValues).rcGiven

(* this step is a calculateDelay *)
DelayCalculateStep == rcLast'.op = "calculateDelay"

(* the step wrote Vc(t) into the target field and kept the time field *)
VoltageStep ==
  LET in == DelayInputs(rcDelayValues)
  IN  /\ rcDelayValues' =
           [rcDelayValues EXCEPT !.vtarget =
              ToFixed(Mul(in.vin,
                          Sub(Num(1),
                              MathExp(Neg(Div(in.t, Mul(in.r, in.c)))))), 3)]
      /\ rcDelayResult'.t = in.t

(* every calculate made while the time field holds a given time solves the *)
(* voltage, whatever the target field holds                                *)
GivenTimeSolvesVoltage ==
  (TimeFieldGiven /\ DelayCalculateStep) => VoltageStep

(* the shortest time shown as more than 0.000 of the smallest unit *)
ShownTimeMin == Dec(5, -10)

--------------------------------------------------------------------------
(* RC delay: the time-solve branch *)

(* the argument of the logarithm, 1 - Vtarget / Vin *)
LogArgument(in) == Sub(Num(1), Div(in.vtarget, in.vin))

(* the argument lies strictly between 0 and 1 and the solved time is a     *)
(* number above 0                                                          *)
TimeDefined(in) ==
  /\ Gt(LogArgument(in), Zero)
  /\ Lt(LogArgument(in), Num(1))
  /\ IsFin(rcDelayResult.t)
  /\ Gt(rcDelayResult.t, Zero)

(* C30 as stated: whenever the time-solve succeeds the argument of the     *)
(* logarithm lies strictly between 0 and 1, the solved time is defined and *)
(* above 0, and the text written to the time field is read as a given      *)
(* (> 0) time again.                                                       *)
C30_Original ==
  TimeWritten =>
    /\ TimeDefined(DelayInputs(rcLast.values))
    /\ DelayInputs(rcDelayValues).timeGiven

(* C30 amended: the time-solve succeeds only for 0 < Vtarget < Vin, hence  *)
(* only for Vin above 0; then the argument of the logarithm lies strictly  *)
(* between 0 and 1 and the solved time is defined and above 0; the text    *)
(* written to the time field is read as a given time again exactly when    *)
(* the solved time is at least 0.0005 us, and is 0.000 otherwise.          *)
C30_TimeSolve ==
  TimeWritten =>
    /\ Gt(DelayInputs(rcLast.values).vin, Zero)
    /\ TimeDefined(DelayInputs(rcLast.values))
    /\ DelayInputs(rcDelayValues).timeGiven <=> Ge(rcDelayResult.t, ShownTimeMin)
    /\ ~DelayInputs(rcDelayValues).timeGiven => rcDelayValues.t = ToFixed(Zero, 3)

(* Vin = 5, Vtarget = 1, tau = 1 s: the time is written in ms and is given *)
C30_Witness ==
  /\ TimeWritten
  /\ rcLast.values.vin = Num(5) /\ rcLast.values.vtarget = Num(1)
  /\ rcDelayResult.tau = Num(1)
  /\ rcDelayValues.tUnit = Dec(1, -3)
  /\ Gt(parseFloat(rcDelayValues.t), Num(200))
  /\ DelayInputs(rcDelayValues).timeGiven
==========================================================================
